---- MODULE Spec2Model ----
(***************************************************************************)
(* A model of the elevator system: the dispatcher (controller.c) with its  *)
(* car table and insertion scheduler, and the per-car shared segment as    *)
(* written by the car process (car.c), the safety supervisor (safety.c)    *)
(* and the internal-service client (internal.c).                           *)
(*                                                                         *)
(* Floor strings are modelled as records [pre, num]: pre is the text in    *)
(* front of the digits ("" for "3", "B" for "B3", "-" for "-3", the form   *)
(* printf("%d") gives a negative number) and num the value of the digits.  *)
(***************************************************************************)
EXTENDS Integers, Sequences, FiniteSets, TLC

\* ------------------------------------------------------------ constants
MAX_CARS == 10
MAX_QUEUE_DEPTH == 20
NO_HEAD == -1000
NO_NEXT == -1
INIT_COST == 1000

\* ------------------------------------------------------------ bounds
\* Call pads place a CALL only while every registered queue has room for two
\* more stops within the bound: MaxQueueLen when one car is followed,
\* FleetQueueLen when the whole fleet is.
MaxQueueLen == 5
FleetQueueLen == 3

\* The ticks of the model's clock in one delay_ms of the car.
TicksPerDelay == 2

\* The inputs a car segment is given in one behaviour: runs of the
\* internal-service client, sensor changes and FLOOR frames.
MaxInputs == 3

\* ------------------------------------------------------------ inputs
\* The cars of the fleet, as the command lines of their car processes.
Fleet ==
  << [name |-> "Alpha", low |-> [pre |-> "", num |-> 1], high |-> [pre |-> "", num |-> 2]],
     [name |-> "Beta", low |-> [pre |-> "B", num |-> 1], high |-> [pre |-> "", num |-> 2]] >>

CarIds == 1..Len(Fleet)

\* The floor strings a call pad is given.
PadFloors ==
  { [pre |-> "B", num |-> 1], [pre |-> "", num |-> 1], [pre |-> "", num |-> 2] }

Statuses == {"Opening", "Open", "Closing", "Closed", "Between"}

\* One status of each kind the dispatcher tells apart: doors opening at a
\* floor (Open, Opening), on the way to the next stop (Between, Closing), and
\* the rest.
FleetStatuses == {"Opening", "Closed", "Between"}

\* ------------------------------------------------------------ floor strings
\* A floor string is a prefix and the number its digits read as: "7" is
\* ("", 7), "B7" is ("B", 7), "-7" is ("-", 7) and "07" is ("0", 7).
floor_to_int(s) ==
  IF s.pre = "B" THEN 0 - s.num
  ELSE IF s.pre = "-" THEN 0 - s.num
  ELSE s.num

int_to_floor(n) ==
  IF n < 0 THEN [pre |-> "B", num |-> 0 - n] ELSE [pre |-> "", num |-> n]

\* strlen of a floor string: the characters of the prefix and the digits of
\* the number.
strlen(s) ==
  (IF s.pre = "" THEN 0 ELSE 1)
  + (IF s.num < 10 THEN 1 ELSE IF s.num < 100 THEN 2 ELSE IF s.num < 1000 THEN 3 ELSE 4)

\* snprintf(msg, ..., "%d", n)
fmt_d(n) ==
  IF n < 0 THEN [pre |-> "-", num |-> 0 - n] ELSE [pre |-> "", num |-> n]

\* validate_floor of the call pad: digits, after 'B' or alone, that atoi reads
\* as 1..99 or 1..999.
validate_floor(s) ==
  IF strlen(s) = 0 \/ strlen(s) > 3 THEN FALSE
  ELSE IF s.pre = "B" THEN s.num >= 1 /\ s.num <= 99
  ELSE IF s.pre = "" \/ s.pre = "0" THEN s.num >= 1 /\ s.num <= 999
  ELSE FALSE

\* ------------------------------------------------------------ queue management
\* Queues are sequences; an index k of the code is position k + 1 here.
insert_into_queue_nodedup(queue, index, value) ==
  IF Len(queue) >= MAX_QUEUE_DEPTH \/ index > Len(queue) THEN queue
  ELSE SubSeq(queue, 1, index) \o <<value>> \o SubSeq(queue, index + 1, Len(queue))

insert_into_queue(queue, index, value) ==
  IF Len(queue) >= MAX_QUEUE_DEPTH \/ index > Len(queue) THEN queue
  ELSE IF index > 0 /\ queue[index] = value THEN queue
  ELSE SubSeq(queue, 1, index) \o <<value>> \o SubSeq(queue, index + 1, Len(queue))

\* The removal taken from the tail of the queue.
remove_from_queue_last(queue, index) ==
  IF Len(queue) = 0 \/ index >= Len(queue) THEN queue
  ELSE SubSeq(queue, 1, Len(queue) - 1)

remove_from_queue(queue, index) ==
  IF Len(queue) = 0 \/ index >= Len(queue) THEN queue
  ELSE SubSeq(queue, 1, index) \o SubSeq(queue, index + 2, Len(queue))

\* ------------------------------------------------------------ scheduler
\* (next > current) ? DIR_UP : ((next < current) ? DIR_DOWN : DIR_IDLE)
segment_direction(current, next) ==
  IF next > current THEN "DIR_UP" ELSE IF next < current THEN "DIR_DOWN" ELSE "DIR_IDLE"

\* (dest > source) ? DIR_UP : DIR_DOWN
request_direction(source, dest) ==
  IF dest > source THEN "DIR_UP" ELSE "DIR_DOWN"

\* The walk started from the reported floor whatever the status.
effective_floor_reported(car) == car.current_floor

\* Lines 438-444: the floor the walk starts from.
effective_floor(car) ==
  IF Len(car.queue) > 0 /\ (car.status = "Closing" \/ car.status = "Between")
  THEN car.queue[1]
  ELSE car.current_floor

\* The value of `current` at the top of iteration i of the walk: the start
\* floor, then the stop before (current = next at the end of each iteration).
walk_current(car, i) ==
  IF i = 0 THEN effective_floor(car) ELSE car.queue[i]

\* `next` in iteration i: queue[i], or current once past the end.
walk_next(car, i) ==
  IF i < Len(car.queue) THEN car.queue[i + 1] ELSE walk_current(car, i)

\* Lines 456-457: source lies on the segment, its start included.
source_on_segment(request_dir, source, current, next) ==
  \/ request_dir = "DIR_UP" /\ source >= current /\ source < next
  \/ request_dir = "DIR_DOWN" /\ source <= current /\ source > next

\* Lines 459-477: the inner loop from j; TRUE when it returns the insertion,
\* FALSE when it leaves by goto next_segment.
RECURSIVE dropoff_scan(_, _, _, _)
dropoff_scan(queue, source, dest, j) ==
  LET request_dir == request_direction(source, dest)
      check_next == IF j < Len(queue) THEN queue[j + 1] ELSE dest
  IN IF \/ request_dir = "DIR_UP" /\ check_next < source
        \/ request_dir = "DIR_DOWN" /\ check_next > source
     THEN FALSE
     ELSE IF \/ j = Len(queue)
             \/ request_dir = "DIR_UP" /\ dest <= check_next
             \/ request_dir = "DIR_DOWN" /\ dest >= check_next
          THEN TRUE
          ELSE dropoff_scan(queue, source, dest, j + 1)

\* Lines 501-515: the loop that sets can_insert_dest.
RECURSIVE can_insert_dest(_, _, _, _, _)
can_insert_dest(queue, source, dest, next_segment_dir, j) ==
  LET check_floor == IF j < Len(queue) THEN queue[j + 1] ELSE dest
      check_dir == request_direction(source, dest)
  IN IF /\ check_dir = next_segment_dir
        /\ \/ check_dir = "DIR_DOWN" /\ dest >= check_floor
           \/ check_dir = "DIR_UP" /\ dest <= check_floor
     THEN TRUE
     ELSE IF j = Len(queue) THEN TRUE
     ELSE can_insert_dest(queue, source, dest, next_segment_dir, j + 1)

\* Lines 483-524: the source extends the run that ends at queue[i] and the
\* destination lies back the other way.
extends_run(car, source, dest, i) ==
  LET queue == car.queue
      current == walk_current(car, i)
      next == walk_next(car, i)
      segment_dir == segment_direction(current, next)
      next_segment_floor == IF i + 1 < Len(queue) THEN queue[i + 2] ELSE NO_NEXT
      next_segment_dir ==
        IF next_segment_floor # NO_NEXT
        THEN segment_direction(next, next_segment_floor)
        ELSE "DIR_IDLE"
  IN /\ segment_dir # "DIR_IDLE"
     /\ i < Len(queue)
     /\ next_segment_dir # segment_dir
     /\ next_segment_dir # "DIR_IDLE"
     /\ \/ segment_dir = "DIR_UP" /\ source > next
        \/ segment_dir = "DIR_DOWN" /\ source < next
     /\ \/ segment_dir = "DIR_UP" /\ dest < source
        \/ segment_dir = "DIR_DOWN" /\ dest > source
     /\ can_insert_dest(queue, source, dest, next_segment_dir, i + 1)

\* Lines 448-532: the walk from segment i; the pickup index it returns.
RECURSIVE insertion_walk(_, _, _, _)
insertion_walk(car, source, dest, i) ==
  LET current == walk_current(car, i)
      next == walk_next(car, i)
      request_dir == request_direction(source, dest)
  IN IF i > Len(car.queue) THEN Len(car.queue)
     ELSE IF /\ segment_direction(current, next) = request_dir
             /\ source_on_segment(request_dir, source, current, next)
          THEN IF dropoff_scan(car.queue, source, dest, i)
               THEN i
               ELSE insertion_walk(car, source, dest, i + 1)
          ELSE IF extends_run(car, source, dest, i)
               THEN i
               ELSE insertion_walk(car, source, dest, i + 1)

\* The pickup index (also the cost returned) and *final_len.
calculate_insertion_cost(car, source, dest) ==
  [ pickup_idx |-> insertion_walk(car, source, dest, 0),
    final_len |-> Len(car.queue) + 2 ]

\* The range test with the destination left out.
covers_source_only(car, source_floor, dest_floor) ==
  ~ (source_floor < car.floor_min \/ source_floor > car.floor_max)

\* Lines 342-345: the car can serve both floors.
covers(car, source_floor, dest_floor) ==
  ~ ( \/ source_floor < car.floor_min \/ source_floor > car.floor_max
      \/ dest_floor < car.floor_min \/ dest_floor > car.floor_max )

\* Line 357: the candidate replaces the best so far.
better_candidate(cost, final_len, min_cost, best_final_len) ==
  cost < min_cost \/ (cost = min_cost /\ final_len < best_final_len)

\* Lines 339-362: the loop over the table from record i; best is the record
\* chosen so far (0 for none).
RECURSIVE select_car(_, _, _, _, _, _, _)
select_car(cs, source_floor, dest_floor, i, best, min_cost, best_final_len) ==
  IF i > MAX_CARS THEN best
  ELSE IF ~ cs[i].in_use \/ ~ covers(cs[i], source_floor, dest_floor)
       THEN select_car(cs, source_floor, dest_floor, i + 1, best, min_cost, best_final_len)
       ELSE LET r == calculate_insertion_cost(cs[i], source_floor, dest_floor)
            IN IF better_candidate(r.pickup_idx, r.final_len, min_cost, best_final_len)
               THEN select_car(cs, source_floor, dest_floor, i + 1, i, r.pickup_idx, r.final_len)
               ELSE select_car(cs, source_floor, dest_floor, i + 1, best, min_cost, best_final_len)

\* Lines 378-384: dest is somewhere in the queue.
dest_already_exists(temp_queue, dest_floor) ==
  \E i \in 1..Len(temp_queue) : temp_queue[i] = dest_floor

\* Lines 390-404: the index at which dest is inserted, scanning from i.
RECURSIVE find_dest_idx(_, _, _, _)
find_dest_idx(temp_queue, source_floor, dest_floor, i) ==
  IF i >= Len(temp_queue) THEN Len(temp_queue)
  ELSE IF request_direction(source_floor, dest_floor) = "DIR_UP"
       THEN IF dest_floor < temp_queue[i + 1] THEN i
            ELSE find_dest_idx(temp_queue, source_floor, dest_floor, i + 1)
       ELSE IF dest_floor > temp_queue[i + 1] THEN i
            ELSE find_dest_idx(temp_queue, source_floor, dest_floor, i + 1)

\* Lines 369-411: the queue committed to the chosen car.
commit_queue(car, source_floor, dest_floor) ==
  LET pickup_idx == calculate_insertion_cost(car, source_floor, dest_floor).pickup_idx
      with_source == insert_into_queue(car.queue, pickup_idx, source_floor)
  IN IF dest_already_exists(with_source, dest_floor) THEN with_source
     ELSE insert_into_queue(with_source,
            find_dest_idx(with_source, source_floor, dest_floor, pickup_idx + 1),
            dest_floor)

\* Lines 555-561: the frames written to the car's socket.
send_next_destination(car) ==
  IF Len(car.queue) > 0
  THEN << [to |-> car.socket_fd, cmd |-> "FLOOR", floor |-> fmt_d(car.queue[1])] >>
  ELSE << >>

\* A FLOOR frame only for a queue that was empty.
head_changed_if_idle(old_head, queue) == old_head = NO_HEAD

\* A FLOOR frame after every assignment.
head_changed_always(old_head, queue) == TRUE

\* Line 420: the head of the queue is not the head read before the commit.
head_changed(old_head, queue) == queue[1] # old_head

\* Lines 333-429: the table after the request, the reply to the call pad and
\* the frames sent to cars.
schedule_request(cs, source_floor, dest_floor) ==
  LET best_car_idx == select_car(cs, source_floor, dest_floor, 1, 0, INIT_COST, INIT_COST)
  IN IF best_car_idx # 0
     THEN LET chosen_car == cs[best_car_idx]
              old_head == IF Len(chosen_car.queue) > 0 THEN chosen_car.queue[1] ELSE NO_HEAD
              committed == [chosen_car EXCEPT !.queue = commit_queue(chosen_car, source_floor, dest_floor)]
          IN [ cars |-> [cs EXCEPT ![best_car_idx] = committed],
               car |-> best_car_idx,
               reply |-> [cmd |-> "CAR", name |-> chosen_car.car_name],
               sent |-> IF head_changed(old_head, committed.queue)
                        THEN send_next_destination(committed)
                        ELSE << >> ]
     ELSE [ cars |-> cs, car |-> 0,
            reply |-> [cmd |-> "UNAVAILABLE", name |-> ""],
            sent |-> << >> ]

\* ------------------------------------------------------------ dispatcher state
VARIABLES
  cars,      \* the car table: record i of the code is cars[i + 1]
  handler,   \* where the car-link handler of each record is: "none", "loop"
             \* (reading frames) or "exit" (left the loop, record not yet freed)
  ev,        \* the last frame a handler dealt with, its reply and the frames
             \* it sent; n alternates so that no two handled frames coincide
  probe      \* a floor string handed to the floor functions, and what they
             \* returned

\* The flag of the car process that its SIGINT handler sets.
VARIABLES should_exit

\* The frames the dispatcher has sent on the car's link that the link worker
\* has not read yet.
VARIABLES rx

\* Where each thread that locks the car's two mutexes is in its current
\* sequence of lock operations, and the thread that holds each mutex.
VARIABLES lock_at, mutex_owner

\* car.c 15 and the mutex of the segment: the two locks of the car process.
Mutexes == {"controller_mutex", "shm_mutex"}

\* The two workers of the car process, and the other processes that lock the
\* segment (the safety supervisor, the internal-service client).
LockThreads == {"motion", "link", "other"}

dvars == << cars, handler, ev, probe, should_exit, rx, lock_at, mutex_owner >>

\* The segment of one car (Beta), its supervisor and the workers of the car
\* process.
VARIABLES
  shm,            \* the fields of the segment
  controller_fd,  \* the car's link to the dispatcher (NO_FD: none)
  link_pc,        \* the link worker: "wait" (at the test of its wait loop),
                  \* "blocked" (in pthread_cond_wait) or "connect"
  safety_pc,      \* the supervisor: "lock" (about to wait), "waiting", "woken"
  sev             \* the last operation on the segment, the status before it
                  \* and the frames it sent

\* The motion worker of the car process. Time is counted in ticks,
\* TicksPerDelay of them to one delay_ms.
VARIABLES
  car_pc,               \* where the motion worker is in its loop
  locals,               \* its snapshot of the modes and of the status
  destination_changed,  \* the flag the link worker raises on a FLOOR frame
  timer,                \* ticks left of the worker's current sleep
  door_t,               \* ticks since the start of the door sequence
  door_ret,             \* where the door sequence returns to
  hb_elapsed            \* ticks since the last heartbeat check

\* The inputs the segment has been given so far.
VARIABLES inputs

mvars == << car_pc, locals, destination_changed, timer, door_t, door_ret, hb_elapsed >>

svars == << shm, controller_fd, link_pc, safety_pc, sev, mvars, inputs, probe, should_exit, rx,
           lock_at, mutex_owner >>

vars == << cars, handler, ev, probe, shm, controller_fd, link_pc, safety_pc, sev, mvars, inputs,
          should_exit, rx, lock_at, mutex_owner >>

FreeCar ==
  [ in_use |-> FALSE, socket_fd |-> 0, car_name |-> "", floor_min |-> 0, floor_max |-> 0,
    current_floor |-> 0, status |-> "", queue |-> << >> ]

NoReply == [cmd |-> "", name |-> ""]

\* op: the frame handled ("free": a record freed); car: the record it
\* concerned (0: none); a, b: the floors it carried, as parsed; st: the status
\* it carried; reply: the answer on the same connection; sent: the frames
\* written to car sockets.
Event(op, car, a, b, st, reply, sent) ==
  [ op |-> op, car |-> car, a |-> a, b |-> b, st |-> st, reply |-> reply, sent |-> sent,
    n |-> 1 - ev.n ]

\* The car process c has a link whose handler is alive. A car process opens
\* its next link only after the record of its previous one was freed.
Linked(c) ==
  \E i \in 1..MAX_CARS : handler[i] # "none" /\ cars[i].socket_fd = c

\* The search that falls back on the last record when none is free.
first_free_or_last(cs) ==
  IF \E i \in 1..MAX_CARS : ~ cs[i].in_use
  THEN CHOOSE i \in 1..MAX_CARS : ~ cs[i].in_use /\ \A k \in 1..(i - 1) : cs[k].in_use
  ELSE MAX_CARS

\* Lines 216-222: the first record not in use (0 when the table is full).
first_free(cs) ==
  IF \E i \in 1..MAX_CARS : ~ cs[i].in_use
  THEN CHOOSE i \in 1..MAX_CARS : ~ cs[i].in_use /\ \A k \in 1..(i - 1) : cs[k].in_use
  ELSE 0

\* Lines 230-239: the record of a car that has just registered.
registered_car(old, client_fd, car_name, min_floor, max_floor) ==
  [ old EXCEPT !.in_use = TRUE, !.socket_fd = client_fd, !.car_name = car_name,
               !.floor_min = min_floor, !.floor_max = max_floor,
               !.queue = << >>, !.status = "Unknown", !.current_floor = min_floor ]

\* The dispatcher process is alive: no thread of it has called exit.
Running == \A j \in 1..MAX_CARS : handler[j] # "exited"

\* handle_car_connection up to its loop: CAR <name> <low> <high> arrives as
\* the first frame of a connection from car process c.
Register(c) ==
  /\ Running
  /\ ~ Linked(c)
  /\ LET car_idx == first_free(cars)
         min_floor == floor_to_int(Fleet[c].low)
         max_floor == floor_to_int(Fleet[c].high)
     IN IF car_idx = 0
        THEN /\ UNCHANGED << cars, handler >>
             /\ ev' = Event("CAR", 0, min_floor, max_floor, "", NoReply, << >>)
        ELSE /\ cars' = [cars EXCEPT ![car_idx] =
                           registered_car(cars[car_idx], c, Fleet[c].name, min_floor, max_floor)]
             /\ handler' = [handler EXCEPT ![car_idx] = "loop"]
             /\ ev' = Event("CAR", car_idx, min_floor, max_floor, "", NoReply, << >>)
  /\ UNCHANGED svars

\* The arrival test with the door status left out.
arrived_at_head_any_status(car) ==
  Len(car.queue) > 0 /\ car.current_floor = car.queue[1]

\* Lines 267-268: the car has arrived at the head of its queue with doors opening.
arrived_at_head(car) ==
  /\ Len(car.queue) > 0
  /\ car.current_floor = car.queue[1]
  /\ (car.status = "Open" \/ car.status = "Opening")

\* Lines 261-272: the record after a STATUS frame.
status_update(car, status_buf, floor) ==
  LET updated == [car EXCEPT !.current_floor = floor, !.status = status_buf]
  IN IF arrived_at_head(updated)
     THEN [updated EXCEPT !.queue = remove_from_queue(updated.queue, 0)]
     ELSE updated

\* Lines 257-274: STATUS <status> <current> <destination> on the link of record i.
StatusFrame(i, status_buf, floor_str) ==
  /\ handler[i] = "loop"
  /\ LET floor == floor_to_int(floor_str)
         updated == [cars[i] EXCEPT !.current_floor = floor, !.status = status_buf]
         after == status_update(cars[i], status_buf, floor)
     IN /\ cars' = [cars EXCEPT ![i] = after]
        /\ ev' = Event("STATUS", i, floor, 0, status_buf, NoReply,
                       IF arrived_at_head(updated) THEN send_next_destination(after) ELSE << >>)
  /\ UNCHANGED handler
  /\ UNCHANGED svars

\* Lines 250-255: INDIVIDUAL SERVICE or EMERGENCY on the link of record i; the
\* handler leaves its loop.
TerminalFrame(i, m) ==
  /\ handler[i] = "loop"
  /\ handler' = [handler EXCEPT ![i] = "exit"]
  /\ ev' = Event(m, i, 0, 0, "", NoReply, << >>)
  /\ UNCHANGED cars
  /\ UNCHANGED svars

\* Lines 278-282: the handler that left its loop frees the record. The other
\* fields of a record that is not in use are dead: nothing reads them before
\* a registration overwrites every one of them (lines 231-239), so the freed
\* record is kept in one canonical form.
FreeRecord(i) ==
  /\ handler[i] = "exit"
  /\ cars' = [cars EXCEPT ![i] = FreeCar]
  /\ handler' = [handler EXCEPT ![i] = "none"]
  /\ ev' = Event("free", i, 0, 0, "", NoReply, << >>)
  /\ UNCHANGED svars

\* The call pad of call.c: two different valid floors.
PadAccepts(source_str, dest_str) ==
  source_str # dest_str /\ validate_floor(source_str) /\ validate_floor(dest_str)

\* handle_call_connection: CALL <src> <dst> as the first frame of a connection.
\* Call pads place calls only while every registered queue has room for two
\* more stops within max_len.
Call(source_str, dest_str, max_len) ==
  /\ Running
  /\ PadAccepts(source_str, dest_str)
  /\ \A i \in 1..MAX_CARS : cars[i].in_use => Len(cars[i].queue) + 2 <= max_len
  /\ LET source_floor == floor_to_int(source_str)
         dest_floor == floor_to_int(dest_str)
         r == schedule_request(cars, source_floor, dest_floor)
     IN /\ cars' = r.cars
        /\ ev' = Event("CALL", r.car, source_floor, dest_floor, "", r.reply, r.sent)
  /\ UNCHANGED handler
  /\ UNCHANGED svars

\* The floor strings a car reports: the floors of its range.
CarFloors(car) ==
  { int_to_floor(f) : f \in (car.floor_min..car.floor_max) \ {0} }

DNext(car_ids, max_len, statuses) ==
  \/ \E c \in car_ids : Register(c)
  \/ \E i \in 1..MAX_CARS : \E st \in statuses : \E f \in CarFloors(cars[i]) : StatusFrame(i, st, f)
  \/ \E i \in 1..MAX_CARS : \E m \in {"INDIVIDUAL SERVICE", "EMERGENCY"} : TerminalFrame(i, m)
  \/ \E i \in 1..MAX_CARS : FreeRecord(i)
  \/ \E s \in PadFloors : \E d \in PadFloors : Call(s, d, max_len)

\* ------------------------------------------------------------ car segment
\* The shared segment of one car (Beta), its safety supervisor, the
\* internal-service client and the two workers of the car process.
NO_FD == -1
LINK_FD == 3
SAFETY_SYSTEM_ACTIVE_VALUE == 1

SegCar == Fleet[2]

\* The locals of the motion worker's loop before it has taken its snapshot.
NoLocals == [is_individual_mode |-> 0, is_emergency |-> 0, current_status_is_closed |-> FALSE]

\* A frame the car writes to its link; the fields after cmd are those of a
\* STATUS frame.
NoFloor == [pre |-> "", num |-> 0]

Frame(cmd) == [cmd |-> cmd, status |-> "", current |-> NoFloor, destination |-> NoFloor]

\* car.c 153-164: the STATUS frame of the segment s, sent when the car has a
\* link.
send_status_update(s, fd) ==
  IF fd # NO_FD
  THEN << [cmd |-> "STATUS", status |-> s.status, current |-> s.current_floor,
           destination |-> s.destination_floor] >>
  ELSE << >>

\* The record of an operation on the segment: its name, the status before
\* it, the frames it sent, and the exit status of a client run.
SegEvent(op, sent) == [op |-> op, was |-> shm.status, sent |-> sent, exit |-> 0]

\* The dispatcher after main has cleared its table (controller.c 85-176), and
\* the segment the car process has just created (car.c 60-91 with reset_shm).
\* No floor string has been handed to the floor functions.
NoProbe == [s |-> [pre |-> "", num |-> 1], done |-> FALSE]

Init ==
  /\ cars = [i \in 1..MAX_CARS |-> FreeCar]
  /\ handler = [i \in 1..MAX_CARS |-> "none"]
  /\ ev = [ op |-> "start", car |-> 0, a |-> 0, b |-> 0, st |-> "", reply |-> NoReply,
            sent |-> << >>, n |-> 0 ]
  /\ shm = [ current_floor |-> SegCar.low, destination_floor |-> SegCar.low,
             status |-> "Closed", open_button |-> 0, close_button |-> 0,
             door_obstruction |-> 0, overload |-> 0, emergency_stop |-> 0,
             individual_service_mode |-> 0, emergency_mode |-> 0, safety_system |-> 0 ]
  /\ controller_fd = NO_FD
  /\ link_pc = "wait"
  /\ safety_pc = "lock"
  /\ sev = [op |-> "start", was |-> "Closed", sent |-> << >>, exit |-> 0]
  /\ car_pc = "top"
  /\ locals = NoLocals
  /\ destination_changed = 0
  /\ timer = 0
  /\ door_t = 0
  /\ door_ret = "top"
  /\ hb_elapsed = 0
  /\ inputs = 0
  /\ should_exit = 0
  /\ rx = << >>
  /\ lock_at = [th \in LockThreads |-> [block |-> << >>, i |-> 1]]
  /\ mutex_owner = [m \in Mutexes |-> "none"]
  /\ probe = NoProbe

\* The mutex of the segment can be taken: no thread is stuck in the signal
\* handler of the car process with the mutex held.
mutex_free == car_pc # "handler"

\* pthread_cond_broadcast: a supervisor or a link worker blocked in
\* pthread_cond_wait is woken; one that is not waiting misses the signal.
broadcast(pc) ==
  IF pc = "waiting" THEN "woken" ELSE IF pc = "blocked" THEN "wait" ELSE pc

\* ---- internal.c
is_basement_floor(floor) == floor.pre = "B"

get_floor_number(floor) ==
  IF is_basement_floor(floor) THEN floor.num
  ELSE IF floor.pre = "-" THEN 0 - floor.num
  ELSE floor.num

\* The floor above with B1 followed by "0".
get_next_floor_up_through_zero(current) ==
  IF is_basement_floor(current)
  THEN [pre |-> IF get_floor_number(current) = 1 THEN "" ELSE "B",
        num |-> get_floor_number(current) - 1]
  ELSE fmt_d(get_floor_number(current) + 1)

get_next_floor_up(current) ==
  IF is_basement_floor(current)
  THEN IF get_floor_number(current) = 1
       THEN [pre |-> "", num |-> 1]
       ELSE [pre |-> "B", num |-> get_floor_number(current) - 1]
  ELSE fmt_d(get_floor_number(current) + 1)

get_next_floor_down(current) ==
  IF is_basement_floor(current)
  THEN [pre |-> "B", num |-> get_floor_number(current) + 1]
  ELSE IF get_floor_number(current) = 1
       THEN [pre |-> "B", num |-> 1]
       ELSE fmt_d(get_floor_number(current) - 1)

\* The operations the client is run with; "reboot" is not one it knows.
InternalOps == {"open", "close", "stop", "service_on", "service_off", "up", "down", "reboot"}

\* The movement operations are refused outside service mode, with the doors
\* not closed, and between floors.
move_refused(s) ==
  \/ s.individual_service_mode = 0
  \/ s.status \in {"Open", "Opening", "Closing"}
  \/ s.status = "Between"

\* The operations with service_off clearing emergency_mode as service_on does.
internal_op_service_off_resets(s, operation) ==
  CASE operation = "open" -> [shm |-> [s EXCEPT !.open_button = 1], ok |-> TRUE]
    [] operation = "close" -> [shm |-> [s EXCEPT !.close_button = 1], ok |-> TRUE]
    [] operation = "stop" -> [shm |-> [s EXCEPT !.emergency_stop = 1], ok |-> TRUE]
    [] operation = "service_on" ->
         [shm |-> [s EXCEPT !.individual_service_mode = 1, !.emergency_mode = 0], ok |-> TRUE]
    [] operation = "service_off" ->
         [shm |-> [s EXCEPT !.individual_service_mode = 0, !.emergency_mode = 0], ok |-> TRUE]
    [] operation = "up" /\ ~ move_refused(s) ->
         [shm |-> [s EXCEPT !.destination_floor = get_next_floor_up(s.current_floor)], ok |-> TRUE]
    [] operation = "down" /\ ~ move_refused(s) ->
         [shm |-> [s EXCEPT !.destination_floor = get_next_floor_down(s.current_floor)], ok |-> TRUE]
    [] OTHER -> [shm |-> s, ok |-> FALSE]

\* internal.c 105-191: the segment after the operation, and whether the
\* operation went through (it then broadcasts; a refused or unknown operation
\* exits without a broadcast).
internal_op(s, operation) ==
  CASE operation = "open" -> [shm |-> [s EXCEPT !.open_button = 1], ok |-> TRUE]
    [] operation = "close" -> [shm |-> [s EXCEPT !.close_button = 1], ok |-> TRUE]
    [] operation = "stop" -> [shm |-> [s EXCEPT !.emergency_stop = 1], ok |-> TRUE]
    [] operation = "service_on" ->
         [shm |-> [s EXCEPT !.individual_service_mode = 1, !.emergency_mode = 0], ok |-> TRUE]
    [] operation = "service_off" ->
         [shm |-> [s EXCEPT !.individual_service_mode = 0], ok |-> TRUE]
    [] operation = "up" /\ ~ move_refused(s) ->
         [shm |-> [s EXCEPT !.destination_floor = get_next_floor_up(s.current_floor)], ok |-> TRUE]
    [] operation = "down" /\ ~ move_refused(s) ->
         [shm |-> [s EXCEPT !.destination_floor = get_next_floor_down(s.current_floor)], ok |-> TRUE]
    [] OTHER -> [shm |-> s, ok |-> FALSE]

\* One run of the internal-service client.
InternalOp(operation, max_inputs) ==
  LET r == internal_op(shm, operation)
  IN /\ inputs < max_inputs
     /\ mutex_free
     /\ inputs' = inputs + 1
     /\ shm' = r.shm
     /\ safety_pc' = IF r.ok THEN broadcast(safety_pc) ELSE safety_pc
     /\ link_pc' = IF r.ok THEN broadcast(link_pc) ELSE link_pc
     /\ sev' = [SegEvent(operation, << >>) EXCEPT !.exit = IF r.ok THEN 0 ELSE 1]
     /\ UNCHANGED << controller_fd >>
     /\ UNCHANGED << dvars, mvars >>

\* The door and load sensors write their bit and signal the condition.
Sensor(field, v, max_inputs) ==
  /\ inputs < max_inputs
  /\ mutex_free
  /\ inputs' = inputs + 1
  /\ shm[field] # v
  /\ shm' = [shm EXCEPT ![field] = v]
  /\ safety_pc' = broadcast(safety_pc)
  /\ link_pc' = broadcast(link_pc)
  /\ sev' = SegEvent(field, << >>)
  /\ UNCHANGED << controller_fd >>
  /\ UNCHANGED << dvars, mvars >>

\* ---- safety.c
\* safety.c 269-322: strtol reads the digits after an optional 'B'; it takes
\* a leading zero ("01") as it takes "1".
validate_floor_string(floor) ==
  IF strlen(floor) = 0 \/ strlen(floor) > 3 THEN FALSE
  ELSE IF floor.pre = "B" THEN floor.num >= 1 /\ floor.num <= 99
  ELSE IF floor.pre = "" \/ floor.pre = "0" THEN floor.num >= 1 /\ floor.num <= 999
  ELSE FALSE

validate_status_string(status) == status \in Statuses

check_boolean_field(v) == v \in {0, 1}

handle_safety_system_heartbeat(s) ==
  IF s.safety_system # SAFETY_SYSTEM_ACTIVE_VALUE
  THEN [s EXCEPT !.safety_system = SAFETY_SYSTEM_ACTIVE_VALUE]
  ELSE s

\* The obstruction rule rewriting the status whatever it is.
handle_door_obstruction_any_status(s) ==
  IF s.door_obstruction = 1 THEN [s EXCEPT !.status = "Opening"] ELSE s

handle_door_obstruction(s) ==
  IF s.door_obstruction = 1 /\ s.status = "Closing" THEN [s EXCEPT !.status = "Opening"] ELSE s

put_car_in_emergency_mode(s) == [s EXCEPT !.emergency_mode = 1]

handle_emergency_stop(s) ==
  IF s.emergency_stop = 1 /\ s.emergency_mode = 0
  THEN [put_car_in_emergency_mode(s) EXCEPT !.emergency_stop = 0]
  ELSE s

handle_overload(s) ==
  IF s.overload = 1 /\ s.emergency_mode = 0 THEN put_car_in_emergency_mode(s) ELSE s

check_data_consistency(s) ==
  \/ s.emergency_mode = 1
  \/ /\ validate_floor_string(s.current_floor)
     /\ validate_floor_string(s.destination_floor)
     /\ validate_status_string(s.status)
     /\ check_boolean_field(s.open_button)
     /\ check_boolean_field(s.close_button)
     /\ check_boolean_field(s.door_obstruction)
     /\ check_boolean_field(s.overload)
     /\ check_boolean_field(s.emergency_stop)
     /\ check_boolean_field(s.individual_service_mode)
     /\ check_boolean_field(s.emergency_mode)
     /\ (s.door_obstruction = 1 => s.status \in {"Opening", "Closing"})

handle_data_consistency_error(s) == put_car_in_emergency_mode(s)

\* safety.c 157-174: the checks of one wake-up, in their order.
safety_pass(s) ==
  LET checked == handle_overload(handle_emergency_stop(handle_door_obstruction(
                   handle_safety_system_heartbeat(s))))
  IN IF check_data_consistency(checked) THEN checked ELSE handle_data_consistency_error(checked)

\* safety.c 134-145: the supervisor takes the mutex and waits on the condition.
SafetyWait ==
  /\ safety_pc = "lock"
  /\ mutex_free
  /\ safety_pc' = "waiting"
  /\ sev' = SegEvent("safety_wait", << >>)
  /\ UNCHANGED << shm, controller_fd, link_pc >>
  /\ UNCHANGED << dvars, mvars, inputs >>

\* safety.c 145-178: the woken supervisor runs its checks and unlocks.
SafetyPass ==
  /\ safety_pc = "woken"
  /\ mutex_free
  /\ shm' = safety_pass(shm)
  /\ safety_pc' = "lock"
  /\ sev' = SegEvent("safety_pass", << >>)
  /\ UNCHANGED << controller_fd, link_pc >>
  /\ UNCHANGED << dvars, mvars, inputs >>

\* ---- car.c: the link worker
floor_compare(f1, f2) == floor_to_int(f1) - floor_to_int(f2)

is_in_range(floor) ==
  floor_compare(floor, SegCar.low) >= 0 /\ floor_compare(floor, SegCar.high) <= 0

\* car.c 206-208: the test of the wait loop fails and the link worker blocks
\* in pthread_cond_wait until the next broadcast.
LinkBlock ==
  /\ link_pc = "wait"
  /\ should_exit = 0 /\ mutex_free
  /\ ~ (shm.safety_system = 1 /\ shm.individual_service_mode = 0 /\ shm.emergency_mode = 0)
  /\ link_pc' = "blocked"
  /\ sev' = SegEvent("link_block", << >>)
  /\ UNCHANGED << shm, controller_fd, safety_pc >>
  /\ UNCHANGED << dvars, mvars, inputs >>

\* car.c 204-215: the link worker leaves its wait loop once the supervisor is
\* active and the car is in neither service nor emergency mode.
LinkCheck ==
  /\ link_pc = "wait"
  /\ should_exit = 0 /\ mutex_free
  /\ controller_fd = NO_FD \/ rx = << >>
  /\ shm.safety_system = 1 /\ shm.individual_service_mode = 0 /\ shm.emergency_mode = 0
  /\ link_pc' = "connect"
  /\ sev' = SegEvent("link_check", << >>)
  /\ UNCHANGED << shm, controller_fd, safety_pc >>
  /\ UNCHANGED << dvars, mvars, inputs >>

\* car.c 217-227: the link worker connects, registers and reports its status
\* when the car has no link, and goes round its loop.
LinkConnect ==
  /\ link_pc = "connect"
  /\ mutex_free
  /\ controller_fd' = IF controller_fd = NO_FD THEN LINK_FD ELSE controller_fd
  /\ link_pc' = "wait"
  /\ sev' = SegEvent("link_connect",
                     IF controller_fd = NO_FD
                     THEN << Frame("CAR") >> \o send_status_update(shm, LINK_FD)
                     ELSE << >>)
  /\ UNCHANGED << shm, safety_pc >>
  /\ UNCHANGED << dvars, mvars, inputs >>

\* The floors the dispatcher names in FLOOR frames, as send_next_destination
\* formats them.
LinkFloors == { fmt_d(f) : f \in {-1, 1, 2, 3} }

\* car.c 229-263: a FLOOR frame arrives on the link.
LinkFloor(floor, max_inputs) ==
  /\ inputs < max_inputs
  /\ inputs' = inputs + 1
  /\ link_pc = "wait"
  /\ should_exit = 0 /\ mutex_free
  /\ controller_fd # NO_FD
  /\ IF is_in_range(floor)
     THEN /\ shm' = [shm EXCEPT !.destination_floor = floor]
          /\ destination_changed' = 1
          /\ safety_pc' = broadcast(safety_pc)
     ELSE UNCHANGED << shm, destination_changed, safety_pc >>
  /\ sev' = SegEvent("FLOOR", << >>)
  /\ UNCHANGED << controller_fd, link_pc >>
  /\ UNCHANGED << car_pc, locals, timer, door_t, door_ret, hb_elapsed >>
  /\ UNCHANGED dvars

\* ---- car.c: the motion worker
\* car.c 182-195: one floor towards the destination, through the integers.
move_one_floor_towards(current, dest) ==
  LET current_int == floor_to_int(current)
      dest_int == floor_to_int(dest)
  IN int_to_floor(IF current_int < dest_int THEN current_int + 1
                  ELSE IF current_int > dest_int THEN current_int - 1
                  ELSE current_int)

\* The heartbeat check that never gives the supervisor up.
heartbeat_check_never_gives_up(s, fd) ==
  IF fd # NO_FD /\ s.individual_service_mode = 0 /\ s.emergency_mode = 0
  THEN IF s.safety_system = 1 THEN [s EXCEPT !.safety_system = 2]
       ELSE IF s.safety_system = 2 THEN [s EXCEPT !.safety_system = 3]
       ELSE s
  ELSE s

\* car.c 475-497: the segment after the motion worker's periodic heartbeat
\* check.
heartbeat_check(s, fd) ==
  IF fd # NO_FD /\ s.individual_service_mode = 0 /\ s.emergency_mode = 0
  THEN IF s.safety_system = 1 THEN [s EXCEPT !.safety_system = 2]
       ELSE IF s.safety_system = 2 THEN [s EXCEPT !.safety_system = 3]
       ELSE IF s.safety_system >= 3 THEN [s EXCEPT !.emergency_mode = 1]
       ELSE s
  ELSE s

\* car.c 466-500: at the top of its loop, one delay or more after the last
\* check, the motion worker checks the heartbeat; at the third missed beat it
\* sends EMERGENCY and closes the link.
CarHeartbeat ==
  /\ car_pc = "top"
  /\ should_exit = 0
  /\ hb_elapsed >= TicksPerDelay
  /\ LET after == heartbeat_check(shm, controller_fd)
         gave_up == after.emergency_mode # shm.emergency_mode
     IN /\ shm' = after
        /\ safety_pc' = IF after # shm THEN broadcast(safety_pc) ELSE safety_pc
        /\ link_pc' = IF after # shm THEN broadcast(link_pc) ELSE link_pc
        /\ controller_fd' = IF gave_up THEN NO_FD ELSE controller_fd
        /\ sev' = SegEvent("heartbeat", IF gave_up THEN << Frame("EMERGENCY") >> ELSE << >>)
  /\ hb_elapsed' = 0
  /\ car_pc' = "snap"
  /\ UNCHANGED << locals, destination_changed, timer, door_t, door_ret >>
  /\ UNCHANGED << dvars, inputs >>

\* car.c 502-506: the worker's snapshot of the modes and of the status.
CarSnapshot ==
  /\ car_pc = "snap" \/ (car_pc = "top" /\ hb_elapsed < TicksPerDelay /\ should_exit = 0)
  /\ locals' = [ is_individual_mode |-> shm.individual_service_mode,
                 is_emergency |-> shm.emergency_mode,
                 current_status_is_closed |-> (shm.status = "Closed") ]
  /\ car_pc' = "buttons"
  /\ sev' = SegEvent("snapshot", << >>)
  /\ door_t' = 0
  /\ UNCHANGED << shm, controller_fd, link_pc, safety_pc >>
  /\ UNCHANGED << destination_changed, timer, door_ret, hb_elapsed >>
  /\ UNCHANGED << dvars, inputs >>

\* car.c 380-457: what handle_buttons finds under the mutex: "close" (the
\* close button with the doors open), "open" (the open button in service
\* mode with the doors closed), "door" (the open button at the destination,
\* in normal mode) or "none".
handle_buttons(s) ==
  IF s.close_button = 1 /\ s.status = "Open" THEN "close"
  ELSE IF s.individual_service_mode = 1
       THEN IF s.open_button = 1 /\ s.status = "Closed" THEN "open" ELSE "none"
       ELSE IF s.open_button = 1 /\ s.current_floor = s.destination_floor /\ s.status = "Closed"
            THEN "door"
            ELSE "none"

\* car.c 508-511 with the first critical section of handle_buttons.
CarButtons ==
  /\ car_pc = "buttons"
  /\ LET run == locals.is_individual_mode # 0 \/ locals.is_emergency = 0
         found == IF run THEN handle_buttons(shm) ELSE "none"
         after == IF found = "close" THEN [shm EXCEPT !.close_button = 0, !.status = "Closing"]
                  ELSE IF found = "open" THEN [shm EXCEPT !.open_button = 0, !.status = "Opening"]
                  ELSE shm
     IN /\ shm' = after
        /\ safety_pc' = IF found \in {"close", "open"} THEN broadcast(safety_pc) ELSE safety_pc
        /\ link_pc' = IF found \in {"close", "open"} THEN broadcast(link_pc) ELSE link_pc
        /\ sev' = SegEvent("buttons", IF found \in {"close", "open"}
                                      THEN send_status_update(after, controller_fd)
                                      ELSE << >>)
        /\ timer' = IF found \in {"close", "open"} THEN TicksPerDelay ELSE 0
        /\ car_pc' = CASE found = "close" -> "btn_closing"
                       [] found = "open" -> "btn_opening"
                       [] found = "door" -> "door_start"
                       [] OTHER -> "mode"
        /\ door_ret' = IF found = "door" THEN "mode" ELSE door_ret
  /\ UNCHANGED << controller_fd, locals, destination_changed, door_t, hb_elapsed >>
  /\ UNCHANGED << dvars, inputs >>

\* handle_buttons after its sleep: the doors it set closing are closed, the
\* doors it set opening are open, unless the status was changed meanwhile.
CarButtonDone ==
  /\ car_pc \in {"btn_closing", "btn_opening"}
  /\ timer = 0
  /\ LET from == IF car_pc = "btn_closing" THEN "Closing" ELSE "Opening"
         to == IF car_pc = "btn_closing" THEN "Closed" ELSE "Open"
         after == IF shm.status = from THEN [shm EXCEPT !.status = to] ELSE shm
     IN /\ shm' = after
        /\ safety_pc' = IF shm.status = from THEN broadcast(safety_pc) ELSE safety_pc
        /\ link_pc' = IF shm.status = from THEN broadcast(link_pc) ELSE link_pc
        /\ sev' = SegEvent("button_done", send_status_update(after, controller_fd))
  /\ car_pc' = "mode"
  /\ UNCHANGED << controller_fd, locals, destination_changed, timer, door_t, door_ret,
                  hb_elapsed >>
  /\ UNCHANGED << dvars, inputs >>

\* car.c 513-568 and 570-590: what the worker decides under the mutex after
\* handle_buttons: "skip" (the status left Closed under it), "snap" (service
\* mode, destination out of range), "step" (service mode, one floor to go),
\* "rest", "door" (sent to the floor it is at), "leave" (a journey starts).
mode_decision(s, snap, changed) ==
  IF snap.current_status_is_closed /\ s.status # "Closed" THEN "skip"
  ELSE IF s.individual_service_mode = 1
       THEN IF s.status = "Closed" /\ s.current_floor # s.destination_floor
            THEN IF ~ is_in_range(s.destination_floor) THEN "snap" ELSE "step"
            ELSE "rest"
       ELSE IF s.emergency_mode = 1 THEN "rest"
       ELSE IF s.status = "Closed"
            THEN IF floor_compare(s.current_floor, s.destination_floor) = 0
                 THEN IF changed # 0 THEN "door" ELSE "rest"
                 ELSE "leave"
            ELSE "rest"

\* car.c 513-590: the mode handling of the worker's loop. In service mode it
\* first sends INDIVIDUAL SERVICE and closes the link.
CarMode ==
  /\ car_pc = "mode"
  /\ LET decision == mode_decision(shm, locals, destination_changed)
         service == decision # "skip" /\ shm.individual_service_mode = 1
         hangs_up == service /\ controller_fd # NO_FD
         fd == IF hangs_up THEN NO_FD ELSE controller_fd
         after == CASE decision = "snap" ->
                         [shm EXCEPT !.destination_floor = shm.current_floor]
                    [] decision \in {"step", "leave"} -> [shm EXCEPT !.status = "Between"]
                    [] OTHER -> shm
     IN /\ shm' = after
        /\ controller_fd' = fd
        /\ safety_pc' = IF decision \in {"step", "leave"} THEN broadcast(safety_pc) ELSE safety_pc
        /\ link_pc' = IF decision \in {"step", "leave"} THEN broadcast(link_pc) ELSE link_pc
        /\ sev' = SegEvent("mode",
                           IF hangs_up THEN << Frame("INDIVIDUAL SERVICE") >>
                           ELSE IF decision = "leave" THEN send_status_update(after, fd)
                           ELSE << >>)
        /\ destination_changed' = IF decision = "door" THEN 0 ELSE destination_changed
        /\ timer' = IF decision = "step" THEN TicksPerDelay ELSE 0
        /\ car_pc' = CASE decision = "step" -> "svc_move"
                       [] decision = "leave" -> "moving"
                       [] decision = "door" -> "door_start"
                       [] OTHER -> "top"
        /\ door_ret' = "top"
  /\ locals' = NoLocals
  /\ door_t' = 0
  /\ UNCHANGED << hb_elapsed >>
  /\ UNCHANGED << dvars, inputs >>

\* car.c 545-557: the floor of a service-mode step is reached.
CarServiceMove ==
  /\ car_pc = "svc_move"
  /\ timer = 0
  /\ LET moved == [shm EXCEPT !.current_floor =
                     move_one_floor_towards(shm.current_floor, shm.destination_floor)]
         arrived == floor_compare(moved.current_floor, moved.destination_floor) = 0
     IN /\ shm' = IF arrived THEN [moved EXCEPT !.status = "Closed"] ELSE moved
        /\ safety_pc' = IF arrived THEN broadcast(safety_pc) ELSE safety_pc
        /\ link_pc' = IF arrived THEN broadcast(link_pc) ELSE link_pc
  /\ sev' = SegEvent("service_move", << >>)
  /\ car_pc' = "top"
  /\ UNCHANGED << controller_fd, locals, destination_changed, timer, door_t, door_ret,
                  hb_elapsed >>
  /\ UNCHANGED << dvars, inputs >>

\* car.c 584-586: the journey loop goes on while the car is between floors
\* and away from its destination.
CarMoveLoop ==
  /\ car_pc = "moving"
  /\ LET goes_on == /\ floor_compare(shm.current_floor, shm.destination_floor) # 0
                    /\ should_exit = 0
                    /\ shm.status = "Between"
     IN /\ car_pc' = IF goes_on THEN "move_sleep" ELSE "top"
        /\ timer' = IF goes_on THEN TicksPerDelay ELSE 0
  /\ sev' = SegEvent("move_loop", << >>)
  /\ UNCHANGED << shm, controller_fd, link_pc, safety_pc >>
  /\ UNCHANGED << locals, destination_changed, door_t, door_ret, hb_elapsed >>
  /\ UNCHANGED << dvars, inputs >>

\* car.c 587-608: one tick of the journey.
CarMoveTick ==
  /\ car_pc = "move_sleep"
  /\ timer = 0
  /\ LET moves == shm.emergency_mode = 0 /\ shm.status = "Between"
         moved == [shm EXCEPT !.current_floor =
                     move_one_floor_towards(shm.current_floor, shm.destination_floor)]
         arrived == floor_compare(moved.current_floor, moved.destination_floor) = 0
     IN /\ shm' = IF moves THEN moved ELSE shm
        /\ sev' = SegEvent("move_tick", IF moves /\ ~ arrived
                                        THEN send_status_update(moved, controller_fd)
                                        ELSE << >>)
        /\ destination_changed' = IF moves /\ arrived THEN 0 ELSE destination_changed
        /\ car_pc' = IF ~ moves THEN "top" ELSE IF arrived THEN "door_start" ELSE "moving"
  /\ door_ret' = "top"
  /\ UNCHANGED << controller_fd, link_pc, safety_pc, locals, timer, door_t, hb_elapsed >>
  /\ UNCHANGED << dvars, inputs >>

\* car.c 286-297: the door sequence starts.
DoorStart ==
  /\ car_pc = "door_start"
  /\ LET after == [shm EXCEPT !.open_button = 0, !.status = "Opening"]
     IN /\ shm' = after
        /\ sev' = SegEvent("door_start", send_status_update(after, controller_fd))
  /\ safety_pc' = broadcast(safety_pc)
  /\ link_pc' = broadcast(link_pc)
  /\ door_t' = 0
  /\ car_pc' = "door_opening"
  /\ UNCHANGED << controller_fd, locals, destination_changed, timer, door_ret, hb_elapsed >>
  /\ UNCHANGED << dvars, inputs >>

\* car.c 299-312: one delay after the start the doors are open.
DoorOpen ==
  /\ car_pc = "door_opening"
  /\ door_t >= TicksPerDelay
  /\ LET after == IF shm.status = "Opening" THEN [shm EXCEPT !.status = "Open"] ELSE shm
     IN /\ shm' = after
        /\ sev' = SegEvent("door_open", send_status_update(after, controller_fd))
  /\ safety_pc' = IF shm.status = "Opening" THEN broadcast(safety_pc) ELSE safety_pc
  /\ link_pc' = IF shm.status = "Opening" THEN broadcast(link_pc) ELSE link_pc
  /\ car_pc' = "door_open"
  /\ UNCHANGED << controller_fd, locals, destination_changed, timer, door_t, door_ret,
                  hb_elapsed >>
  /\ UNCHANGED << dvars, inputs >>

\* The wait with the doors open ending one delay early.
door_poll_due_early(s, t) ==
  IF s.close_button = 1 /\ s.status = "Open" THEN "close"
  ELSE IF s.status # "Open" THEN "gone"
  ELSE IF t >= TicksPerDelay THEN "due"
  ELSE "wait"

\* The wait with the doors open never looking at the close button.
door_poll_ignores_button(s, t) ==
  IF s.status # "Open" THEN "gone"
  ELSE IF t >= 2 * TicksPerDelay THEN "due"
  ELSE "wait"

\* car.c 315-361: what a round of the wait with the doors open finds: "close"
\* (the close button), "gone" (the status is no longer Open), "due" (two
\* delays after the start) or "wait".
door_poll(s, t) ==
  IF s.close_button = 1 /\ s.status = "Open" THEN "close"
  ELSE IF s.status # "Open" THEN "gone"
  ELSE IF t >= 2 * TicksPerDelay THEN "due"
  ELSE "wait"

\* car.c 315-368: the wait with the doors open ends, and the doors start to
\* close.
DoorClose ==
  /\ car_pc = "door_open"
  /\ LET found == door_poll(shm, door_t)
         after == CASE found = "close" -> [shm EXCEPT !.close_button = 0, !.status = "Closing"]
                    [] found = "due" -> [shm EXCEPT !.status = "Closing"]
                    [] OTHER -> shm
     IN /\ found # "wait"
        /\ shm' = after
        /\ safety_pc' = IF found = "gone" THEN safety_pc ELSE broadcast(safety_pc)
        /\ link_pc' = IF found = "gone" THEN link_pc ELSE broadcast(link_pc)
        /\ sev' = SegEvent("door_close", IF found = "gone" THEN << >>
                                         ELSE send_status_update(after, controller_fd))
  /\ timer' = TicksPerDelay
  /\ car_pc' = "door_closing"
  /\ UNCHANGED << controller_fd, locals, destination_changed, door_t, door_ret,
                  hb_elapsed >>
  /\ UNCHANGED << dvars, inputs >>

\* car.c 363-377: one delay after the doors started to close they are closed,
\* unless the status was changed meanwhile.
DoorClosed ==
  /\ car_pc = "door_closing"
  /\ timer = 0
  /\ LET after == IF shm.status = "Closing" THEN [shm EXCEPT !.status = "Closed"] ELSE shm
     IN /\ shm' = after
        /\ sev' = SegEvent("door_closed", send_status_update(after, controller_fd))
  /\ safety_pc' = IF shm.status = "Closing" THEN broadcast(safety_pc) ELSE safety_pc
  /\ link_pc' = IF shm.status = "Closing" THEN broadcast(link_pc) ELSE link_pc
  /\ car_pc' = door_ret
  /\ door_ret' = "top"
  /\ UNCHANGED << controller_fd, locals, destination_changed, timer, door_t, hb_elapsed >>
  /\ UNCHANGED << dvars, inputs >>

\* ---- time
\* The motion worker is asleep, or at the top of its loop with no heartbeat
\* check due.
car_sleeps ==
  \/ car_pc = "top" /\ hb_elapsed < TicksPerDelay
  \/ car_pc \in {"btn_closing", "btn_opening", "svc_move", "move_sleep", "door_closing"} /\ timer > 0
  \/ car_pc = "door_opening" /\ door_t < TicksPerDelay
  \/ car_pc = "door_open" /\ door_poll(shm, door_t) = "wait"

\* One tick passes: the two workers of the car are blocked (the link worker
\* in its wait, the motion worker asleep). The supervisor is a process of its
\* own and may be late.
Tick ==
  /\ link_pc \in {"wait", "blocked", "exited"}
  /\ car_sleeps
  /\ timer' = IF timer > 0 THEN timer - 1 ELSE 0
  /\ door_t' = IF car_pc \in {"door_opening", "door_open", "door_closing"} /\ door_t < 3 * TicksPerDelay
               THEN door_t + 1
               ELSE door_t
  /\ hb_elapsed' = IF hb_elapsed < TicksPerDelay THEN hb_elapsed + 1 ELSE hb_elapsed
  /\ sev' = SegEvent("tick", << >>)
  /\ UNCHANGED << shm, controller_fd, link_pc, safety_pc >>
  /\ UNCHANGED << car_pc, locals, destination_changed, door_ret >>
  /\ UNCHANGED << dvars, inputs >>

\* The steps of the motion worker.
MotionWorker ==
  \/ CarHeartbeat
  \/ CarSnapshot
  \/ CarButtons
  \/ CarButtonDone
  \/ CarMode
  \/ CarServiceMove
  \/ CarMoveLoop
  \/ CarMoveTick
  \/ DoorStart
  \/ DoorOpen
  \/ DoorClose
  \/ DoorClosed

\* The steps of the car process, its supervisor and the clock.
CarSteps ==
  \/ SafetyWait
  \/ SafetyPass
  \/ LinkBlock
  \/ LinkCheck
  \/ LinkConnect
  \/ CarHeartbeat
  \/ CarSnapshot
  \/ CarButtons
  \/ CarButtonDone
  \/ CarMode
  \/ CarServiceMove
  \/ CarMoveLoop
  \/ CarMoveTick
  \/ DoorStart
  \/ DoorOpen
  \/ DoorClose
  \/ DoorClosed
  \/ Tick

\* The segment with the internal-service operations ops, the sensors of
\* sensors and the FLOOR frames of floors, for max_inputs inputs.
SNext(ops, sensors, floors, max_inputs) ==
  \/ \E operation \in ops : InternalOp(operation, max_inputs)
  \/ \E field \in sensors : \E v \in {0, 1} : Sensor(field, v, max_inputs)
  \/ \E floor \in floors : LinkFloor(floor, max_inputs)
  \/ CarSteps

\* ------------------------------------------------------------ specifications
\* One car (Beta, B1..2) and its queue.
Spec == Init /\ [][DNext({2}, MaxQueueLen, Statuses)]_vars

\* The whole fleet, with shorter queues and one status of each kind.
SpecFleet == Init /\ [][DNext(CarIds, FleetQueueLen, FleetStatuses)]_vars

\* The segment of one car with the whole internal-service client, the
\* overload sensor and the dispatcher's FLOOR frames.
SpecSeg == Init /\ [][SNext(InternalOps, {"overload"}, LinkFloors, MaxInputs)]_vars

\* The segment of one car with the door buttons, service mode and its up
\* step, the obstruction sensor and FLOOR frames for the two lowest floors.
SpecDoor ==
  Init /\ [][SNext({"open", "close", "service_on", "up"}, {"door_obstruction"}, {fmt_d(-1), fmt_d(1)}, MaxInputs)]_vars

\* The segments a supervisor's pass is run on: floor strings that are
\* canonical ("1", "B1") and that are not ("0", "01", "-1", "1000"), a status
\* that is no status, and bytes above 1 in the bit fields.
PassFloors ==
  { [pre |-> "", num |-> 1], [pre |-> "B", num |-> 1], [pre |-> "", num |-> 0],
    [pre |-> "0", num |-> 1], [pre |-> "-", num |-> 1], [pre |-> "", num |-> 1000] }

PassDestinations ==
  { [pre |-> "", num |-> 2], [pre |-> "0", num |-> 2], [pre |-> "B", num |-> 100] }

PassSegments ==
  [ current_floor : PassFloors, destination_floor : PassDestinations,
    status : Statuses \cup {"Stuck"}, open_button : {0, 2}, close_button : {0, 1},
    door_obstruction : {0, 1, 2}, overload : {0, 1, 2}, emergency_stop : {0, 1, 2},
    individual_service_mode : {0, 1, 2}, emergency_mode : {0, 1}, safety_system : {0, 3} ]

\* A supervisor that has just been woken on one of these segments.
PassInit ==
  /\ cars = [i \in 1..MAX_CARS |-> FreeCar]
  /\ handler = [i \in 1..MAX_CARS |-> "none"]
  /\ ev = [ op |-> "start", car |-> 0, a |-> 0, b |-> 0, st |-> "", reply |-> NoReply,
            sent |-> << >>, n |-> 0 ]
  /\ shm \in PassSegments
  /\ controller_fd = NO_FD
  /\ link_pc = "wait"
  /\ safety_pc = "woken"
  /\ sev = [op |-> "start", was |-> "Closed", sent |-> << >>, exit |-> 0]
  /\ car_pc = "top"
  /\ locals = NoLocals
  /\ destination_changed = 0
  /\ timer = 0
  /\ door_t = 0
  /\ door_ret = "top"
  /\ hb_elapsed = 0
  /\ inputs = 0
  /\ should_exit = 0
  /\ rx = << >>
  /\ lock_at = [th \in LockThreads |-> [block |-> << >>, i |-> 1]]
  /\ mutex_owner = [m \in Mutexes |-> "none"]
  /\ probe = NoProbe

\* One pass of the supervisor on every such segment.
SpecPass == PassInit /\ [][SafetyPass]_vars

\* Every process that can run gets to run, and time goes on: the threads of
\* the car and the supervisor are scheduled by the kernel, and every sleep
\* ends.
Fairness ==
  /\ WF_vars(MotionWorker)
  /\ WF_vars(SafetyWait \/ SafetyPass)
  /\ WF_vars(LinkBlock \/ LinkCheck \/ LinkConnect)
  /\ SF_vars(Tick)

\* The segment of one car under fair scheduling.
SpecSegFair == SpecSeg /\ Fairness

\* ------------------------------------------------------------ claims: scheduler
Assigned == ev.op = "CALL" /\ ev.car # 0

\* Some stop at position a is x and some later stop at position b is y.
Before(q, x, y) ==
  \E a \in 1..Len(q) : \E b \in (a + 1)..Len(q) : q[a] = x /\ q[b] = y

\* The stops of q from position a to position b never go against the
\* direction from x to y.
Monotone(q, a, b, x, y) ==
  \A k \in a..(b - 1) : IF y > x THEN q[k + 1] >= q[k] ELSE q[k + 1] <= q[k]

\* C1: after a CALL (src, dst) answered CAR <name>, the chosen car's queue
\* holds src at some index and dst at a strictly later index, and both floors
\* lie within the car's [floor_min, floor_max].
C1_SourceBeforeDest ==
  Assigned =>
    LET car == cars[ev.car]
    IN /\ Before(car.queue, ev.a, ev.b)
       /\ car.floor_min <= ev.a /\ ev.a <= car.floor_max
       /\ car.floor_min <= ev.b /\ ev.b <= car.floor_max

\* C2: after a CALL (src, dst) is committed, the queue serves src and later
\* dst with no stop in between that goes against the direction of the request.
C2_NoReversalBeforeDropoff ==
  (Assigned /\ Before(cars[ev.car].queue, ev.a, ev.b)) =>
    LET q == cars[ev.car].queue
    IN \E a \in 1..Len(q) : \E b \in (a + 1)..Len(q) :
         q[a] = ev.a /\ q[b] = ev.b /\ Monotone(q, a, b, ev.a, ev.b)

\* C3: no queue of the table holds two equal adjacent stops.
C3_NoAdjacentDuplicates ==
  \A i \in 1..MAX_CARS :
    \A k \in 1..(Len(cars[i].queue) - 1) : cars[i].queue[k] # cars[i].queue[k + 1]

\* A CALL whose source was already queued has been merged into a queue of
\* four stops or more.
C3_Witness ==
  /\ Assigned
  /\ Len(cars[ev.car].queue) >= 4
  /\ Cardinality({k \in 1..Len(cars[ev.car].queue) : cars[ev.car].queue[k] = ev.a}) >= 2

\* ------------------------------------------------------------ claims: replies
\* Record i is in use and its range holds both floors.
InRange(c, x, y) ==
  /\ c.in_use
  /\ c.floor_min <= x /\ x <= c.floor_max
  /\ c.floor_min <= y /\ y <= c.floor_max

\* C4: the reply to a CALL is UNAVAILABLE exactly when no registered car's
\* range holds both floors; otherwise it is CAR <name> of a registered car
\* whose range holds both. An UNAVAILABLE reply changes no queue and sends no
\* FLOOR frame.
C4_UnavailableIffNoCandidate ==
  [][ ev'.op = "CALL" =>
        LET none == ~ \E i \in 1..MAX_CARS : InRange(cars[i], ev'.a, ev'.b)
        IN /\ (ev'.reply.cmd = "UNAVAILABLE") <=> none
           /\ none => (cars' = cars /\ ev'.sent = << >> /\ ev'.car = 0)
           /\ ~ none => /\ ev'.reply.cmd = "CAR"
                        /\ ev'.car \in 1..MAX_CARS
                        /\ InRange(cars[ev'.car], ev'.a, ev'.b)
                        /\ ev'.reply.name = cars[ev'.car].car_name
                        /\ \A k \in 1..MAX_CARS : k # ev'.car => cars'[k] = cars[k]
    ]_dvars

\* UNAVAILABLE was answered while a car that serves only one of the two
\* floors was registered.
C4_Witness ==
  /\ ev.op = "CALL" /\ ev.reply.cmd = "UNAVAILABLE"
  /\ \E i \in 1..MAX_CARS :
       /\ cars[i].in_use
       /\ cars[i].floor_min <= ev.b /\ ev.b <= cars[i].floor_max
       /\ ~ (cars[i].floor_min <= ev.a /\ ev.a <= cars[i].floor_max)

\* C5: the car assigned has the smallest pickup index among the candidates,
\* and among the candidates with that pickup index the shortest queue after
\* the commit.
C5_SmallestPickupThenShortestQueue ==
  [][ (ev'.op = "CALL" /\ ev'.car # 0) =>
        LET pick(i) == calculate_insertion_cost(cars[i], ev'.a, ev'.b).pickup_idx
            result(i) == Len(commit_queue(cars[i], ev'.a, ev'.b))
        IN \A i \in 1..MAX_CARS :
             InRange(cars[i], ev'.a, ev'.b) =>
               \/ pick(ev'.car) < pick(i)
               \/ pick(ev'.car) = pick(i) /\ result(ev'.car) <= result(i)
    ]_dvars

\* ------------------------------------------------------------ claims: first fit
\* The first-fit reference of the design: the start floor, the segments and
\* the test that a segment accepts the pickup.
RefStart(car) ==
  IF Len(car.queue) = 0 \/ car.status \in {"Open", "Opening", "Closed"}
  THEN car.current_floor
  ELSE car.queue[1]

RefPrev(car, i) == IF i = 0 THEN RefStart(car) ELSE car.queue[i]

RefAccepts(car, src, dst, i) ==
  LET q == car.queue
      prev == RefPrev(car, i)
      stop == q[i + 1]
      up == dst > src
  IN /\ IF up THEN stop > prev ELSE stop < prev
     /\ IF up THEN prev <= src /\ src < stop ELSE prev >= src /\ src > stop
     /\ \E j \in i..Len(q) :
          /\ \A k \in i..j : k < Len(q) => (IF up THEN q[k + 1] >= src ELSE q[k + 1] <= src)
          /\ j = Len(q) \/ (IF up THEN dst <= q[j + 1] ELSE dst >= q[j + 1])

RefPickup(car, src, dst) ==
  IF \E i \in 0..(Len(car.queue) - 1) : RefAccepts(car, src, dst, i)
  THEN CHOOSE i \in 0..(Len(car.queue) - 1) :
         /\ RefAccepts(car, src, dst, i)
         /\ \A k \in 0..(i - 1) : ~ RefAccepts(car, src, dst, k)
  ELSE Len(car.queue)

\* C6: for every registered car and every request within its range,
\* calculate_insertion_cost returns the pickup index of the first-fit
\* reference (the queue size when no segment accepts) and a final_len equal
\* to the length of the queue after the commit.
C6_AgreesWithFirstFit ==
  \A i \in 1..MAX_CARS : \A src, dst \in -1..2 :
    (src # 0 /\ dst # 0 /\ src # dst /\ InRange(cars[i], src, dst)) =>
      LET r == calculate_insertion_cost(cars[i], src, dst)
      IN /\ r.pickup_idx = RefPickup(cars[i], src, dst)
         /\ r.final_len = Len(commit_queue(cars[i], src, dst))

\* ------------------------------------------------------------ claims: frames
\* C7: a CALL assignment sends the chosen car one FLOOR frame with the new
\* head of its queue when the assignment changed the head (an empty queue
\* counts as changed), and no frame otherwise; a car whose queue was empty is
\* sent the source floor.
C7_FloorIffHeadChanged ==
  [][ (ev'.op = "CALL" /\ ev'.car # 0) =>
        LET old == cars[ev'.car].queue
            new == cars'[ev'.car].queue
            changed == Len(old) = 0 \/ (Len(new) > 0 /\ new[1] # old[1])
        IN /\ changed => /\ Len(ev'.sent) = 1
                         /\ ev'.sent[1].cmd = "FLOOR"
                         /\ ev'.sent[1].to = cars[ev'.car].socket_fd
                         /\ floor_to_int(ev'.sent[1].floor) = new[1]
           /\ ~ changed => ev'.sent = << >>
           /\ Len(old) = 0 => (Len(ev'.sent) = 1 /\ floor_to_int(ev'.sent[1].floor) = ev'.a)
    ]_dvars

\* A CALL put its source in front of a queue that was not empty, and the car
\* was sent a FLOOR frame.
C7_Witness ==
  /\ Assigned
  /\ Len(cars[ev.car].queue) >= 3
  /\ cars[ev.car].queue[1] = ev.a
  /\ Len(ev.sent) = 1

\* C8: a STATUS frame sets the record's floor and status; it removes the head
\* of the queue exactly when the queue is not empty, the reported floor is the
\* head and the reported status is Open or Opening; it removes one stop only,
\* and then sends FLOOR <new head> exactly when a stop is left. No CALL and no
\* terminal frame removes a stop.
C8_StatusPopsHead ==
  [][ /\ ev'.op = "STATUS" =>
           LET old == cars[ev'.car]
               new == cars'[ev'.car]
               pop == /\ Len(old.queue) > 0
                      /\ ev'.a = old.queue[1]
                      /\ ev'.st \in {"Open", "Opening"}
           IN /\ new.current_floor = ev'.a /\ new.status = ev'.st
              /\ pop => /\ new.queue = Tail(old.queue)
                        /\ IF Len(new.queue) > 0
                           THEN /\ Len(ev'.sent) = 1
                                /\ ev'.sent[1].cmd = "FLOOR"
                                /\ ev'.sent[1].to = old.socket_fd
                                /\ floor_to_int(ev'.sent[1].floor) = new.queue[1]
                           ELSE ev'.sent = << >>
              /\ ~ pop => (new.queue = old.queue /\ ev'.sent = << >>)
              /\ \A k \in 1..MAX_CARS : k # ev'.car => cars'[k] = cars[k]
      /\ ev'.op \in {"CALL", "INDIVIDUAL SERVICE", "EMERGENCY"} =>
           \A k \in 1..MAX_CARS : Len(cars'[k].queue) >= Len(cars[k].queue)
    ]_dvars

\* A STATUS frame removed the head of a queue and the next head was sent.
C8_Witness ==
  ev.op = "STATUS" /\ Len(ev.sent) = 1 /\ Len(cars[ev.car].queue) >= 1

\* C9: no CALL is assigned to a car whose INDIVIDUAL SERVICE or EMERGENCY
\* frame the dispatcher has already received.
C9_NoCallAfterTerminalFrame ==
  [][ (ev'.op = "CALL" /\ ev'.car # 0) => handler[ev'.car] # "exit" ]_dvars

CanonicalFloor(s) ==
  \/ s.pre = "" /\ s.num >= 1 /\ s.num <= 999
  \/ s.pre = "B" /\ s.num >= 1 /\ s.num <= 99

\* C12: every FLOOR frame the dispatcher sends names the queue head as a
\* canonical floor string, basement stops included.
C12_FloorFramesCanonical ==
  \A k \in 1..Len(ev.sent) :
    ev.sent[k].cmd = "FLOOR" => CanonicalFloor(ev.sent[k].floor)

\* ------------------------------------------------------------ claims: segment invariants
\* C11: in every state of a car segment status is one of the five values and
\* both floor strings are canonical.
C11_SegmentWellFormed ==
  /\ shm.status \in Statuses
  /\ CanonicalFloor(shm.current_floor)
  /\ CanonicalFloor(shm.destination_floor)

\* ------------------------------------------------------------ claims: doors
\* C13: when door_obstruction has just been set to 1 with the status at
\* Closing, and the broadcast has woken the supervisor, the status does not go
\* from that Closing to Closed.
C13_ObstructionReopens ==
  [][ ( /\ sev.op = "door_obstruction" /\ sev.was = "Closing"
        /\ shm.door_obstruction = 1 /\ shm.status = "Closing"
        /\ safety_pc = "woken" )
      => shm'.status # "Closed" ]_vars

\* One STATUS frame with the new status has been pushed by the step, when the
\* car has a link.
Pushed ==
  controller_fd # NO_FD =>
    /\ Len(sev'.sent) = 1
    /\ sev'.sent[1].cmd = "STATUS"
    /\ sev'.sent[1].status = shm'.status

\* C14: with no close button and no obstruction, the door sequence enters
\* Opening at its start, Open one delay later, Closing two delays later and
\* Closed three delays later, in this order, and pushes a STATUS frame at each
\* of the four changes.
C14_DoorSequence ==
  [][ /\ (sev'.op = "door_start") =>
           (door_t' = 0 /\ shm'.status = "Opening" /\ Pushed)
      /\ (car_pc = "door_opening" /\ shm.status = "Opening") =>
           /\ door_t <= TicksPerDelay
           /\ (shm'.status # "Opening") =>
                (door_t = TicksPerDelay /\ shm'.status = "Open" /\ Pushed)
      /\ (car_pc = "door_open" /\ shm.status = "Open" /\ shm.close_button = 0) =>
           /\ door_t <= 2 * TicksPerDelay
           /\ (shm'.status # "Open") =>
                (door_t = 2 * TicksPerDelay /\ shm'.status = "Closing" /\ Pushed)
      /\ ( /\ car_pc = "door_closing" /\ shm.status = "Closing"
           /\ shm.door_obstruction = 0 /\ door_t + timer = 3 * TicksPerDelay
           /\ shm'.status # "Closing" ) =>
           (door_t = 3 * TicksPerDelay /\ shm'.status = "Closed" /\ Pushed)
    ]_vars

\* A door sequence started by a FLOOR frame for the floor the car is at has
\* just ended, three delays after its start, with the last STATUS frame.
C14_Witness ==
  /\ sev.op = "door_closed" /\ sev.was = "Closing"
  /\ shm.status = "Closed"
  /\ door_t = 3 * TicksPerDelay
  /\ shm.destination_floor = fmt_d(-1)
  /\ shm.close_button = 0 /\ shm.door_obstruction = 0
  /\ Len(sev.sent) = 1

\* C15: with the doors open in the door sequence, no time passes once
\* close_button is pressed or two delays have gone since the start; the status
\* then becomes Closing, a press is cleared, and Closed is written exactly one
\* delay after Closing was entered.
C15_CloseAtEarlier ==
  [][ /\ (car_pc = "door_open" /\ shm.status = "Open") =>
           /\ (sev'.op = "tick") => (shm.close_button = 0 /\ door_t < 2 * TicksPerDelay)
           /\ (shm'.status # "Open") =>
                /\ shm'.status = "Closing"
                /\ shm.close_button = 1 \/ door_t = 2 * TicksPerDelay
                /\ shm'.close_button = 0
                /\ timer' = TicksPerDelay
      /\ (car_pc = "door_closing" /\ shm.status = "Closing" /\ shm.door_obstruction = 0) =>
           /\ (sev'.op = "tick") => (timer > 0 /\ timer' = timer - 1)
           /\ (shm'.status # "Closing") => (timer = 0 /\ shm'.status = "Closed")
    ]_vars

\* A door sequence has just ended in which a press of close_button, after the
\* doors had been open for some time, started the closing early.
C15_Witness ==
  /\ sev.op = "door_closed" /\ sev.was = "Closing"
  /\ shm.status = "Closed"
  /\ shm.close_button = 0
  /\ door_t > 2 * TicksPerDelay /\ door_t < 3 * TicksPerDelay

\* ------------------------------------------------------------ claims: modes
\* C16: emergency_mode = 1 with the car still connected does not persist: the
\* car comes to close its link.
C16_EmergencyDisconnects ==
  (shm.emergency_mode = 1 /\ controller_fd # NO_FD) ~> (controller_fd = NO_FD)

\* C17: individual_service_mode = 1 with the car connected leads to the car
\* closing its link (after INDIVIDUAL SERVICE).
C17_ServiceModeDisconnects ==
  (shm.individual_service_mode = 1 /\ controller_fd # NO_FD) ~> (controller_fd = NO_FD)

\* ------------------------------------------------------------ claims: heartbeat
\* C18: a periodic check comes at least one delay after the one before. On a
\* connected car in normal mode it ages safety_system from 1 to 2 and from 2
\* to 3 and does nothing else; at 3 or more it sets emergency_mode, sends
\* EMERGENCY and closes the link. On a car that is disconnected, in service
\* mode or in emergency mode it changes nothing. No other step of the car
\* sends EMERGENCY.
C18_HeartbeatAging ==
  [][ LET aged == /\ controller_fd # NO_FD
                  /\ shm.individual_service_mode = 0
                  /\ shm.emergency_mode = 0
      IN /\ (sev'.op = "heartbeat") =>
              /\ hb_elapsed >= TicksPerDelay
              /\ (aged /\ shm.safety_system \in {1, 2}) =>
                   /\ shm' = [shm EXCEPT !.safety_system = shm.safety_system + 1]
                   /\ controller_fd' = controller_fd
                   /\ sev'.sent = << >>
              /\ (aged /\ shm.safety_system >= 3) =>
                   /\ shm' = [shm EXCEPT !.emergency_mode = 1]
                   /\ controller_fd' = NO_FD
                   /\ Len(sev'.sent) = 1 /\ sev'.sent[1].cmd = "EMERGENCY"
              /\ (~ aged) =>
                   /\ shm' = shm
                   /\ controller_fd' = controller_fd
                   /\ sev'.sent = << >>
         /\ (\E k \in 1..Len(sev'.sent) : sev'.sent[k].cmd = "EMERGENCY") =>
              (sev'.op = "heartbeat" /\ aged /\ shm.safety_system >= 3)
    ]_vars

\* A check has just found safety_system at 3 on a connected car.
C18_Witness ==
  /\ sev.op = "heartbeat"
  /\ shm.safety_system = 3
  /\ shm.emergency_mode = 1
  /\ controller_fd = NO_FD
  /\ Len(sev.sent) = 1 /\ sev.sent[1].cmd = "EMERGENCY"

\* ------------------------------------------------------------ claims: supervisor
\* The segment meets the data model: canonical floor strings, a status of the
\* five, bit fields of 0 or 1, and an obstruction only with the doors opening
\* or closing (status is the status after the obstruction rule).
Section3(s, status) ==
  /\ CanonicalFloor(s.current_floor)
  /\ CanonicalFloor(s.destination_floor)
  /\ status \in Statuses
  /\ \A f \in {"open_button", "close_button", "door_obstruction", "overload",
                "emergency_stop", "individual_service_mode", "emergency_mode"} : s[f] \in {0, 1}
  /\ s.door_obstruction = 1 => status \in {"Opening", "Closing"}

\* C19: a pass that begins with emergency_mode = 0 ends with emergency_mode = 1
\* exactly when emergency_stop is 1, overload is 1 or the segment breaks the
\* data model; a pass that begins with emergency_mode = 1 leaves it and
\* emergency_stop as they were; every pass ends with safety_system = 1.
C19_PassSetsEmergencyIff ==
  [][ (sev'.op = "safety_pass") =>
        /\ shm.emergency_mode = 0 =>
             ( shm'.emergency_mode = 1 <=>
                 \/ shm.emergency_stop = 1
                 \/ shm.overload = 1
                 \/ ~ Section3(shm, shm'.status) )
        /\ shm.emergency_mode = 1 =>
             (shm'.emergency_mode = 1 /\ shm'.emergency_stop = shm.emergency_stop)
        /\ shm'.safety_system = 1
    ]_vars

\* C20: a pass leaves the floors, the buttons, the sensors and the service
\* mode as they were, and changes the status only from Closing to Opening with
\* door_obstruction at 1.
C20_PassWritesNoMotion ==
  [][ (sev'.op = "safety_pass") =>
        /\ \A f \in {"current_floor", "destination_floor", "open_button", "close_button",
                      "door_obstruction", "overload", "individual_service_mode"} :
             shm'[f] = shm[f]
        /\ (shm'.status # shm.status) =>
             (shm.status = "Closing" /\ shm'.status = "Opening" /\ shm.door_obstruction = 1)
    ]_vars

\* A pass has just reopened closing doors on an obstruction.
C20_Witness ==
  /\ sev.op = "safety_pass"
  /\ sev.was = "Closing"
  /\ shm.status = "Opening"
  /\ shm.door_obstruction = 1

\* ------------------------------------------------------------ claims: service moves
\* The floors in their order ...B2, B1, 1, 2..., as integers without zero.
FloorOf(n) == IF n < 0 THEN [pre |-> "B", num |-> 0 - n] ELSE [pre |-> "", num |-> n]

NumberOf(f) == IF f.pre = "B" THEN 0 - f.num ELSE f.num

FloorAbove(f) == FloorOf(IF NumberOf(f) = -1 THEN 1 ELSE NumberOf(f) + 1)

FloorBelow(f) == FloorOf(IF NumberOf(f) = 1 THEN -1 ELSE NumberOf(f) - 1)

\* C21: an up or down outside service mode, or with the status Open, Opening,
\* Closing or Between, changes nothing in the segment, wakes nobody and exits
\* non-zero; in service mode with the status Closed it writes the adjacent
\* floor, zero skipped, to destination_floor and nothing else, broadcasts and
\* exits zero.
C21_MoveOperations ==
  [][ (sev'.op \in {"up", "down"}) =>
        /\ ( \/ shm.individual_service_mode = 0
             \/ shm.status \in {"Open", "Opening", "Closing", "Between"} ) =>
             (shm' = shm /\ safety_pc' = safety_pc /\ sev'.exit # 0)
        /\ (shm.individual_service_mode = 1 /\ shm.status = "Closed") =>
             /\ shm' = [shm EXCEPT !.destination_floor =
                          IF sev'.op = "up" THEN FloorAbove(shm.current_floor)
                          ELSE FloorBelow(shm.current_floor)]
             /\ safety_pc = "waiting" => safety_pc' = "woken"
             /\ sev'.exit = 0
    ]_vars

\* An up at B1 in service mode has just set the destination to 1.
C21_Witness ==
  /\ sev.op = "up" /\ sev.exit = 0
  /\ shm.current_floor = [pre |-> "B", num |-> 1]
  /\ shm.destination_floor = [pre |-> "", num |-> 1]
  /\ shm.individual_service_mode = 1

\* C22: a manual move started in service mode towards the floor next to the
\* car's ends, one delay later, with current_floor at that floor and the
\* status Closed.
C22_ManualMoveArrives ==
  [][ ( /\ sev'.op = "service_move"
        /\ shm.destination_floor \in {FloorAbove(shm.current_floor), FloorBelow(shm.current_floor)} )
      => (shm'.current_floor = shm.destination_floor /\ shm'.status = "Closed") ]_vars

\* ------------------------------------------------------------ floor functions
\* The numbers the probed floor strings read as: the small ones, and those
\* around the ends of the ranges and around the three-character limit.
ProbeNumbers == (0..20) \cup {98, 99, 100, 101, 998, 999, 1000}

\* The probed strings: plain digits, 'B' and digits, a minus sign and digits,
\* and digits after one leading zero.
ProbeFloors == { [pre |-> p, num |-> n] : p \in {"", "B", "-", "0"}, n \in ProbeNumbers }

\* A process is given the floor string probe.s.
FloorsInit ==
  /\ cars = [i \in 1..MAX_CARS |-> FreeCar]
  /\ handler = [i \in 1..MAX_CARS |-> "none"]
  /\ ev = [ op |-> "start", car |-> 0, a |-> 0, b |-> 0, st |-> "", reply |-> NoReply,
            sent |-> << >>, n |-> 0 ]
  /\ shm = [ current_floor |-> SegCar.low, destination_floor |-> SegCar.low,
             status |-> "Closed", open_button |-> 0, close_button |-> 0,
             door_obstruction |-> 0, overload |-> 0, emergency_stop |-> 0,
             individual_service_mode |-> 0, emergency_mode |-> 0, safety_system |-> 0 ]
  /\ controller_fd = NO_FD
  /\ link_pc = "wait"
  /\ safety_pc = "lock"
  /\ sev = [op |-> "start", was |-> "Closed", sent |-> << >>, exit |-> 0]
  /\ car_pc = "top"
  /\ locals = NoLocals
  /\ destination_changed = 0
  /\ timer = 0
  /\ door_t = 0
  /\ door_ret = "top"
  /\ hb_elapsed = 0
  /\ inputs = 0
  /\ should_exit = 0
  /\ rx = << >>
  /\ lock_at = [th \in LockThreads |-> [block |-> << >>, i |-> 1]]
  /\ mutex_owner = [m \in Mutexes |-> "none"]
  /\ probe \in { [s |-> f, done |-> FALSE] : f \in ProbeFloors }

\* The string goes through the validators of the call pad and of the
\* supervisor, and through floor_to_int and int_to_floor.
FloorProbe ==
  /\ ~ probe.done
  /\ probe' = [ s |-> probe.s, done |-> TRUE,
                valid |-> validate_floor(probe.s),
                valid_string |-> validate_floor_string(probe.s),
                back |-> int_to_floor(floor_to_int(probe.s)) ]
  /\ UNCHANGED << cars, handler, ev >>
  /\ UNCHANGED << shm, controller_fd, link_pc, safety_pc, sev, mvars, inputs, should_exit, rx >>
  /\ UNCHANGED << lock_at, mutex_owner >>

SpecFloors == FloorsInit /\ [][FloorProbe]_vars

\* ------------------------------------------------------------ claims: floor functions
\* C23: every floor string the validators accept comes back unchanged from
\* int_to_floor(floor_to_int(s)), and the validators accept exactly the
\* canonical strings B99..B1 and 1..999: a string with a leading zero, with a
\* sign, of more than three characters or reading as zero is rejected.
C23_ValidatorCanonical ==
  probe.done =>
    /\ probe.valid = CanonicalFloor(probe.s)
    /\ probe.valid_string = CanonicalFloor(probe.s)
    /\ (probe.valid => probe.back = probe.s)

\* ------------------------------------------------------------ first frames
\* First frames that start with neither "CAR" nor "CALL".
OtherFrames == {"", "STATUS Closed 1 1", "FLOOR 1", "EMERGENCY", "car A 1 2"}

\* controller.c 181-201: client_handler_thread on a connection whose first
\* frame matches neither strncmp. receive_msg has returned the frame (it never
\* returns NULL), no branch of the if chain is taken, the buffer is freed and
\* the pool slot is released; close(client_fd) appears only in the branches
\* that were not taken.
FirstFrame(buffer) ==
  /\ Running
  /\ ev' = [ op |-> "first_frame", car |-> 0, a |-> 0, b |-> 0, st |-> buffer,
             reply |-> NoReply, sent |-> << >>, n |-> 1 - ev.n,
             client_fd |-> "open", in_use |-> 0 ]
  /\ UNCHANGED << cars, handler >>
  /\ UNCHANGED svars

\* controller.c 247 with shared_utils.c 4-21, 39-51: the peer of record i's
\* link has closed and the handler reads again. receive_msg calls recv_looped
\* for the two bytes of the length, read returns 0 and recv_looped calls
\* exit(1): the dispatcher process ends with every thread of it, the record
\* still in use and the socket not closed by the handler.
PeerClosed(i) ==
  /\ handler[i] = "loop"
  /\ handler' = [j \in 1..MAX_CARS |-> "exited"]
  /\ ev' = Event("exit(1)", i, 0, 0, "", NoReply, << >>)
  /\ UNCHANGED cars
  /\ UNCHANGED svars

CNext ==
  \/ DNext({2}, FleetQueueLen, Statuses)
  \/ \E buffer \in OtherFrames : FirstFrame(buffer)
  \/ \E i \in 1..MAX_CARS : PeerClosed(i)

SpecConn == Init /\ [][CNext]_vars

\* ------------------------------------------------------------ claims: connections
\* C24: when the first frame of a connection is neither a CAR registration
\* nor a CALL, the handler closes the connection, sends nothing, leaves the
\* car table as it was and releases its pool slot.
C24_OtherFrameCloses ==
  [][ ev'.op = "first_frame"
      => /\ ev'.client_fd = "closed"
         /\ ev'.sent = << >> /\ ev'.reply = NoReply
         /\ cars' = cars
         /\ ev'.in_use = 0 ]_vars

\* C25: when the peer of a car link closes and the handler's read returns 0,
\* the dispatcher survives: the handler leaves its loop, frees the car record
\* and closes its socket, and the dispatcher goes on serving connections.
C25_PeerCloseSurvived ==
  [][ \A i \in 1..MAX_CARS :
        (handler[i] = "loop" /\ handler'[i] # "loop")
        => (Running' /\ handler'[i] = "exit") ]_vars

\* ------------------------------------------------------------ claims: start-up
\* C26: with the supervisor running and the segment staying in normal mode, a
\* freshly started car eventually connects and sends its CAR frame followed
\* by a STATUS frame, also when no other process ever writes to the segment
\* or broadcasts on its cond (inputs stays 0).
C26_FreshCarConnects ==
  <>( \/ /\ controller_fd # NO_FD
         /\ sev.op = "link_connect"
         /\ Len(sev.sent) = 2 /\ sev.sent[1].cmd = "CAR" /\ sev.sent[2].cmd = "STATUS"
      \/ shm.individual_service_mode = 1
      \/ shm.emergency_mode = 1
      \/ inputs > 0 )

\* ------------------------------------------------------------ SIGINT
\* The steps of the motion worker that run with the mutex of the segment
\* held: the snapshot (car.c 502-506), handle_buttons and the mode decision
\* (car.c 509 on).
LockedSteps == {"snap", "buttons", "mode"}

\* car.c 46-56: SIGINT is delivered to a thread of the car process, the main
\* thread or the motion worker. The handler sets should_exit, locks the mutex
\* of the segment, broadcasts and unlocks. When the interrupted thread holds
\* that mutex, a default mutex, locking it again is undefined: the handler
\* blocks for ever on the mutex its own thread holds ("deadlock"), or the
\* lock returns and the handler goes on ("returns").
Sigint(thread, relock) ==
  /\ should_exit = 0
  /\ mutex_free
  /\ should_exit' = 1
  /\ IF thread = "motion" /\ car_pc \in LockedSteps /\ relock = "deadlock"
     THEN /\ car_pc' = "handler"
          /\ UNCHANGED << safety_pc, link_pc >>
     ELSE /\ safety_pc' = broadcast(safety_pc)
          /\ link_pc' = broadcast(link_pc)
          /\ UNCHANGED car_pc
  /\ sev' = SegEvent("SIGINT", << >>)
  /\ UNCHANGED << shm, controller_fd >>
  /\ UNCHANGED << locals, destination_changed, timer, door_t, door_ret, hb_elapsed, inputs >>
  /\ UNCHANGED << cars, handler, ev, probe, rx, lock_at, mutex_owner >>

\* car.c 464: the motion worker finds should_exit set at the top of its loop
\* and returns.
CarExit ==
  /\ car_pc = "top"
  /\ should_exit = 1
  /\ car_pc' = "exited"
  /\ sev' = SegEvent("car_exit", << >>)
  /\ UNCHANGED << shm, controller_fd, link_pc, safety_pc >>
  /\ UNCHANGED << locals, destination_changed, timer, door_t, door_ret, hb_elapsed, inputs >>
  /\ UNCHANGED << cars, handler, ev, probe, should_exit, rx, lock_at, mutex_owner >>

\* car.c 203-211: the link worker takes the mutex, finds should_exit set in
\* its wait loop and leaves both loops.
LinkExit ==
  /\ link_pc = "wait"
  /\ should_exit = 1
  /\ mutex_free
  /\ link_pc' = "exited"
  /\ sev' = SegEvent("link_exit", << >>)
  /\ UNCHANGED << shm, controller_fd, safety_pc >>
  /\ UNCHANGED << mvars, inputs >>
  /\ UNCHANGED << cars, handler, ev, probe, should_exit, rx, lock_at, mutex_owner >>

SigNext ==
  \/ SNext({"open", "service_on", "up"}, {"door_obstruction"}, {fmt_d(1)}, MaxInputs)
  \/ \E thread \in {"main", "motion"} : \E relock \in {"deadlock", "returns"} : Sigint(thread, relock)
  \/ CarExit
  \/ LinkExit

SpecSig ==
  Init /\ [][SigNext]_vars /\ Fairness /\ WF_vars(CarExit) /\ WF_vars(LinkExit)

\* ------------------------------------------------------------ claims: termination
\* C27: once SIGINT has been delivered to the car process, both workers leave
\* their loops and the process terminates, whatever the workers were doing
\* when the signal arrived.
C27_SigintTerminates ==
  (should_exit = 1) ~> (car_pc = "exited" /\ link_pc = "exited")

\* The door specification with the workers, the supervisor and time going on.
SpecDoorFair == SpecDoor /\ Fairness

\* ------------------------------------------------------------ claims: motion
\* C28: current_floor changes only while the status is Between, never with
\* the doors Opening, Open or Closing, and each change takes it to the next
\* floor of the floor order (... B2, B1, 1, 2 ...) on the side of
\* destination_floor.
C28_OneFloorSteps ==
  [][ shm'.current_floor # shm.current_floor
      => /\ shm.status = "Between"
         /\ shm.status \notin {"Opening", "Open", "Closing"}
         /\ \/ /\ floor_to_int(shm.current_floor) < floor_to_int(shm.destination_floor)
               /\ shm'.current_floor = FloorAbove(shm.current_floor)
            \/ /\ floor_to_int(shm.current_floor) > floor_to_int(shm.destination_floor)
               /\ shm'.current_floor = FloorBelow(shm.current_floor) ]_vars

\* C29: in normal mode a car that is Between with destination_floor equal to
\* current_floor goes on to open its doors: the status becomes Opening
\* (unless the car is taken out of normal mode first).
C29_BetweenAtDestinationOpens ==
  ( /\ shm.status = "Between"
    /\ shm.current_floor = shm.destination_floor
    /\ shm.individual_service_mode = 0 /\ shm.emergency_mode = 0 )
  ~> ( \/ shm.status = "Opening"
       \/ shm.individual_service_mode = 1
       \/ shm.emergency_mode = 1 )

\* C30: whenever the status is Opening, whoever set it (the door sequence of
\* the car, an open in service mode, or the supervisor re-opening an
\* obstructed Closing door), the car sets it to Open afterwards: the status
\* does not stay Opening for ever.
C30_OpeningBecomesOpen ==
  (shm.status = "Opening") ~> (shm.status = "Open")

\* ------------------------------------------------------------ claims: emergency
\* C31: while emergency_mode is 1 the motion worker never changes
\* current_floor and never starts opening the doors (a status that becomes
\* Opening by a step other than the supervisor's pass), in service mode as in
\* normal mode.
C31_EmergencyIdle ==
  [][ (shm.emergency_mode = 1 /\ shm'.emergency_mode = 1)
      => /\ shm'.current_floor = shm.current_floor
         /\ (shm.status # "Opening" /\ shm'.status = "Opening") => sev'.op = "safety_pass" ]_vars

\* ------------------------------------------------------------ frames in flight
\* The dispatcher writes FLOOR <floor> on the link of the connected car
\* (controller.c 555-561); at most one frame is in flight.
DispatcherSends(floor, max_inputs) ==
  /\ inputs < max_inputs
  /\ inputs' = inputs + 1
  /\ controller_fd # NO_FD
  /\ rx = << >>
  /\ rx' = << floor >>
  /\ sev' = SegEvent("send_floor", << >>)
  /\ UNCHANGED << shm, controller_fd, link_pc, safety_pc, mvars >>
  /\ UNCHANGED << cars, handler, ev, probe, should_exit, lock_at, mutex_owner >>

\* car.c 203-263: one round of the link worker with a frame in flight. The
\* worker takes the mutex and leaves its wait loop only with safety_system =
\* 1 and both modes 0 (206-208); it then finds the socket readable, reads the
\* frame and, when the floor is in range, writes destination_floor, raises
\* destination_changed and broadcasts (252-263).
LinkRead ==
  /\ link_pc = "wait"
  /\ should_exit = 0 /\ mutex_free
  /\ shm.safety_system = 1 /\ shm.individual_service_mode = 0 /\ shm.emergency_mode = 0
  /\ controller_fd # NO_FD
  /\ rx # << >>
  /\ rx' = Tail(rx)
  /\ IF is_in_range(Head(rx))
     THEN /\ shm' = [shm EXCEPT !.destination_floor = Head(rx)]
          /\ destination_changed' = 1
          /\ safety_pc' = broadcast(safety_pc)
     ELSE UNCHANGED << shm, destination_changed, safety_pc >>
  /\ sev' = SegEvent("FLOOR", << >>)
  /\ UNCHANGED << controller_fd, link_pc, inputs >>
  /\ UNCHANGED << car_pc, locals, timer, door_t, door_ret, hb_elapsed >>
  /\ UNCHANGED << cars, handler, ev, probe, should_exit, lock_at, mutex_owner >>

\* The segment of one car with the dispatcher sending FLOOR frames down the
\* car's connection and the link worker reading them.
LNext ==
  \/ \E operation \in {"open", "close", "service_on", "up"} : InternalOp(operation, MaxInputs)
  \/ \E floor \in {fmt_d(1), fmt_d(2)} : DispatcherSends(floor, MaxInputs)
  \/ LinkRead
  \/ CarSteps

\* The same under fair scheduling; the read of a pending frame is strongly
\* fair.
SpecLink ==
  /\ Init /\ [][LNext]_vars
  /\ WF_vars(MotionWorker)
  /\ WF_vars(SafetyWait \/ SafetyPass)
  /\ WF_vars(LinkBlock \/ LinkCheck \/ LinkConnect)
  /\ SF_vars(LinkRead)
  /\ SF_vars(Tick)

\* ------------------------------------------------------------ claims: link
\* C32: an in-range FLOOR frame sent to a car that stays connected and in
\* normal mode is eventually read by the link worker and written to
\* destination_floor.
C32_FloorFrameApplied ==
  (rx # << >> /\ is_in_range(Head(rx)))
  ~> ( \/ rx = << >>
       \/ controller_fd = NO_FD
       \/ shm.individual_service_mode = 1
       \/ shm.emergency_mode = 1 )

\* ------------------------------------------------------------ claims: buttons
\* C33: in normal mode a door button that is 1 is cleared to 0 afterwards,
\* whatever the status is when it is pressed.
C33_ButtonsMomentary ==
  /\ (shm.close_button = 1 /\ shm.individual_service_mode = 0 /\ shm.emergency_mode = 0)
     ~> (shm.close_button = 0 \/ shm.individual_service_mode = 1 \/ shm.emergency_mode = 1)
  /\ (shm.open_button = 1 /\ shm.individual_service_mode = 0 /\ shm.emergency_mode = 0)
     ~> (shm.open_button = 0 \/ shm.individual_service_mode = 1 \/ shm.emergency_mode = 1)

\* ------------------------------------------------------------ the car table
\* The command line of the further car processes: cars of the upper floors.
Gamma == [name |-> "Gamma", low |-> [pre |-> "", num |-> 3], high |-> [pre |-> "", num |-> 4]]

\* The car processes that try to be registered at once: Beta and as many
\* Gamma cars as the table has records.
TableProcesses == 2..(MAX_CARS + 2)

CommandLine(c) == IF c = 2 THEN Fleet[2] ELSE Gamma

\* controller.c 203-242: handle_car_connection up to its loop, for car
\* process c started with the given command line. With no record free the
\* connection is closed and the handler returns; the table is not written.
CarConnects(c, line) ==
  /\ Running
  /\ ~ Linked(c)
  /\ LET car_idx == first_free(cars)
         min_floor == floor_to_int(line.low)
         max_floor == floor_to_int(line.high)
     IN IF car_idx = 0
        THEN /\ UNCHANGED << cars, handler >>
             /\ ev' = [ op |-> "CAR", car |-> 0, a |-> min_floor, b |-> max_floor, st |-> "",
                        reply |-> NoReply, sent |-> << >>, n |-> 1 - ev.n,
                        client_fd |-> "closed" ]
        ELSE /\ cars' = [cars EXCEPT ![car_idx] =
                           registered_car(cars[car_idx], c, line.name, min_floor, max_floor)]
             /\ handler' = [handler EXCEPT ![car_idx] = "loop"]
             /\ ev' = [ op |-> "CAR", car |-> car_idx, a |-> min_floor, b |-> max_floor, st |-> "",
                        reply |-> NoReply, sent |-> << >>, n |-> 1 - ev.n,
                        client_fd |-> "open" ]
  /\ UNCHANGED svars

\* The car processes are started one after the other; Beta reports its doors
\* opening at its lowest and highest floor, the call pads of floors 1 and 2
\* call for each other, and the first and the last record's car can leave.
TNext ==
  \/ \E c \in TableProcesses :
        /\ \A k \in TableProcesses : k < c => Linked(k)
        /\ CarConnects(c, CommandLine(c))
  \/ \E f \in {fmt_d(-1), fmt_d(2)} : StatusFrame(1, "Opening", f)
  \/ \E i \in {1, MAX_CARS} : TerminalFrame(i, "EMERGENCY")
  \/ \E i \in 1..MAX_CARS : FreeRecord(i)
  \/ \E p \in { << 1, 2 >>, << 2, 1 >> } : Call(fmt_d(p[1]), fmt_d(p[2]), MAX_QUEUE_DEPTH + 2)

\* The table with more car processes than records and queues up to their
\* capacity.
SpecTable == Init /\ [][TNext]_vars

\* ------------------------------------------------------------ the two locks
\* The lock operations of the car process, in the order the code performs
\* them on each of its paths.
lock(m) == [kind |-> "lock", m |-> m]
unlock(m) == [kind |-> "unlock", m |-> m]

\* car.c 502-506 and every other section that takes the segment mutex alone
\* (255-262, 292-296, 307-312, 322-343, 371-376, 381-455, 513-624); the
\* sections of safety.c and internal.c.
shm_section == << lock("shm_mutex"), unlock("shm_mutex") >>

\* car.c 204-210 and safety.c 134-178: pthread_cond_wait releases the segment
\* mutex and takes it again on wake-up.
cond_wait_section ==
  << lock("shm_mutex"), unlock("shm_mutex"), lock("shm_mutex"), unlock("shm_mutex") >>

\* car.c 145-150 (disconnect_from_controller), 220-222, 230-232, 242-244.
controller_section == << lock("controller_mutex"), unlock("controller_mutex") >>

\* car.c 153-164: send_status_update takes controller_mutex and, with a link
\* open, the segment mutex inside it.
send_status_update_locks(connected) ==
  IF connected
  THEN << lock("controller_mutex"), lock("shm_mutex"),
          unlock("shm_mutex"), unlock("controller_mutex") >>
  ELSE controller_section

\* The heartbeat's emergency branch with controller_mutex taken inside the
\* segment mutex.
heartbeat_locks_nested ==
  << lock("shm_mutex"), lock("controller_mutex"),
     unlock("controller_mutex"), unlock("shm_mutex") >>

\* car.c 475-499: the heartbeat's emergency branch unlocks the segment mutex
\* (488) before it takes controller_mutex (489-495) and then takes the
\* segment mutex again (496-499).
heartbeat_locks ==
  << lock("shm_mutex"), unlock("shm_mutex"),
     lock("controller_mutex"), unlock("controller_mutex"),
     lock("shm_mutex"), unlock("shm_mutex") >>

\* car.c 513-559: the service branch does the same around its INDIVIDUAL
\* SERVICE frame (524-530).
service_disconnect_locks ==
  << lock("shm_mutex"), unlock("shm_mutex"),
     lock("controller_mutex"), unlock("controller_mutex"),
     lock("shm_mutex"), unlock("shm_mutex") >>

\* The paths of each thread: main_operation_thread with handle_buttons and
\* open_door_sequence, controller_thread, and the other processes.
LockPaths(th) ==
  CASE th = "motion" ->
         { shm_section, heartbeat_locks, service_disconnect_locks,
           send_status_update_locks(TRUE), send_status_update_locks(FALSE) }
    [] th = "link" ->
         { cond_wait_section, shm_section, controller_section,
           send_status_update_locks(TRUE), send_status_update_locks(FALSE) }
    [] th = "other" -> { shm_section, cond_wait_section }

\* The thread has finished its path.
PathDone(th) == lock_at[th].i > Len(lock_at[th].block)

NextOp(th) == lock_at[th].block[lock_at[th].i]

Holds(th, m) == mutex_owner[m] = th

\* The thread is blocked in pthread_mutex_lock on a mutex another one holds.
WaitsFor(th, m) ==
  /\ ~ PathDone(th)
  /\ NextOp(th) = lock(m)
  /\ mutex_owner[m] # "none"

LockUnchanged ==
  UNCHANGED << cars, handler, ev, probe, should_exit, rx,
               shm, controller_fd, link_pc, safety_pc, sev, mvars, inputs >>

\* The thread starts one of its paths.
PathStart(th, block) ==
  /\ PathDone(th)
  /\ lock_at' = [lock_at EXCEPT ![th] = [block |-> block, i |-> 1]]
  /\ UNCHANGED mutex_owner
  /\ LockUnchanged

\* pthread_mutex_lock returns: the mutex was free.
MutexLock(th) ==
  /\ ~ PathDone(th)
  /\ NextOp(th).kind = "lock"
  /\ mutex_owner[NextOp(th).m] = "none"
  /\ mutex_owner' = [mutex_owner EXCEPT ![NextOp(th).m] = th]
  /\ lock_at' = [lock_at EXCEPT ![th].i = @ + 1]
  /\ LockUnchanged

\* pthread_mutex_unlock, or the release inside pthread_cond_wait.
MutexUnlock(th) ==
  /\ ~ PathDone(th)
  /\ NextOp(th).kind = "unlock"
  /\ mutex_owner' = [mutex_owner EXCEPT ![NextOp(th).m] = "none"]
  /\ lock_at' = [lock_at EXCEPT ![th].i = @ + 1]
  /\ LockUnchanged

KNext ==
  \/ \E th \in LockThreads : \E block \in LockPaths(th) : PathStart(th, block)
  \/ \E th \in LockThreads : MutexLock(th)
  \/ \E th \in LockThreads : MutexUnlock(th)

\* The lock operations of the car's workers and of the other processes on
\* the segment, interleaved in every order.
SpecLocks == Init /\ [][KNext]_vars

\* ------------------------------------------------------------ claims: queues
\* The stops of a, in their order, are among the stops of b.
RECURSIVE is_subsequence(_, _)
is_subsequence(a, b) ==
  IF a = << >> THEN TRUE
  ELSE IF b = << >> THEN FALSE
  ELSE IF Head(a) = Head(b) THEN is_subsequence(Tail(a), Tail(b))
  ELSE is_subsequence(a, Tail(b))

C35_TableBounds ==
  /\ [] ( /\ Cardinality({ i \in DOMAIN cars : cars[i].in_use }) <= 10
          /\ \A i \in DOMAIN cars : Len(cars[i].queue) <= 20 )
  /\ [][ /\ (ev'.op = "CAR" /\ \A i \in 1..MAX_CARS : cars[i].in_use)
            => (ev'.car = 0 /\ ev'.client_fd = "closed" /\ cars' = cars /\ handler' = handler)
         /\ \A i \in 1..MAX_CARS :
              (ev'.op = "CALL" /\ Len(cars[i].queue) = MAX_QUEUE_DEPTH)
              => cars'[i].queue = cars[i].queue ]_vars

\* A registration has been refused with every record in use while a queue
\* is full.
C35_Witness ==
  /\ ev.op = "CAR" /\ ev.car = 0
  /\ \A i \in 1..MAX_CARS : cars[i].in_use
  /\ \E i \in 1..MAX_CARS : Len(cars[i].queue) = MAX_QUEUE_DEPTH

\* C36: the last FLOOR frame sent to a registered car names the head of its
\* queue. Every step that leaves a registered car with a head it did not have
\* before (a first stop, or another floor at the head) sends that car one
\* FLOOR frame with the new head, and every FLOOR frame sent names the head of
\* the queue of the car it is addressed to.
C36_HeadAnnounced ==
  [][ /\ \A i \in 1..MAX_CARS :
           ( /\ cars'[i].in_use /\ cars'[i].queue # << >>
             /\ (cars[i].queue = << >> \/ cars'[i].queue[1] # cars[i].queue[1]) )
           => /\ Len(ev'.sent) = 1
              /\ ev'.sent[1].cmd = "FLOOR"
              /\ ev'.sent[1].to = cars'[i].socket_fd
              /\ ev'.sent[1].floor = fmt_d(cars'[i].queue[1])
      /\ (ev' # ev) =>
           \A k \in 1..Len(ev'.sent) :
             \E i \in 1..MAX_CARS :
               /\ cars'[i].in_use /\ cars'[i].socket_fd = ev'.sent[k].to
               /\ cars'[i].queue # << >>
               /\ ev'.sent[k].floor = fmt_d(cars'[i].queue[1])
    ]_dvars

\* A CALL has changed the head of one car's queue and that car was sent its
\* new head, while another car has stops of its own.
C36_Witness ==
  /\ ev.op = "CALL" /\ ev.car # 0
  /\ Len(ev.sent) = 1
  /\ Len(cars[ev.car].queue) >= 3
  /\ \E j \in 1..MAX_CARS : j # ev.car /\ cars[j].in_use /\ cars[j].queue # << >>

\* C37: a CALL assigned to a car whose record has the status Between or
\* Closing and a queue that is not empty is picked up at index 1 or later,
\* leaves the head of the queue as it was and sends no FLOOR frame.
C37_HeadInTransitKept ==
  [][ ( /\ ev'.op = "CALL" /\ ev'.car # 0
        /\ cars[ev'.car].status \in {"Between", "Closing"}
        /\ cars[ev'.car].queue # << >> )
      => /\ calculate_insertion_cost(cars[ev'.car], ev'.a, ev'.b).pickup_idx >= 1
         /\ cars'[ev'.car].queue[1] = cars[ev'.car].queue[1]
         /\ ev'.sent = << >> ]_dvars

\* A CALL has been assigned to a car on its way to a head that is not the
\* floor it reported, whose source lies between the two.
C37_Witness ==
  /\ ev.op = "CALL" /\ ev.car # 0
  /\ cars[ev.car].status \in {"Between", "Closing"}
  /\ Len(cars[ev.car].queue) >= 3
  /\ cars[ev.car].current_floor < ev.a /\ ev.a < cars[ev.car].queue[1]
  /\ ev.a < ev.b

\* ------------------------------------------------------------ claims: range
\* C38: current_floor is a floor of the car's range [lowest_floor,
\* highest_floor] in every reachable state.
C38_CurrentFloorInRange ==
  /\ floor_compare(shm.current_floor, SegCar.low) >= 0
  /\ floor_compare(shm.current_floor, SegCar.high) <= 0

\* ------------------------------------------------------------ claims: wake-ups
\* C39: once emergency_stop or overload is 1 (its writer has broadcast the
\* cond), the supervisor sets emergency_mode to 1 afterwards, wherever the
\* supervisor was when the broadcast happened; a sensor that went back to 0
\* in the meantime is excused.
C39_NoMissedWakeup ==
  /\ (shm.emergency_stop = 1) ~> (shm.emergency_mode = 1 \/ shm.emergency_stop = 0)
  /\ (shm.overload = 1) ~> (shm.emergency_mode = 1 \/ shm.overload = 0)

\* ------------------------------------------------------------ claims: locks
\* C40: no worker of the car process asks for controller_mutex while it holds
\* the segment mutex, and the motion worker and the link worker never each
\* wait for a mutex the other one holds.
C40_LockOrder ==
  /\ \A th \in {"motion", "link"} :
       (~ PathDone(th) /\ NextOp(th) = lock("controller_mutex")) => ~ Holds(th, "shm_mutex")
  /\ ~ \E a \in {"motion", "link"} : \E b \in {"motion", "link"} \ {a} :
         \E m1 \in Mutexes : \E m2 \in Mutexes :
           /\ WaitsFor(a, m1) /\ Holds(b, m1)
           /\ WaitsFor(b, m2) /\ Holds(a, m2)

\* The link worker, inside send_status_update with controller_mutex held,
\* waits for the segment mutex that the motion worker holds, while the motion
\* worker has only that one.
C40_Witness ==
  /\ Holds("link", "controller_mutex")
  /\ WaitsFor("link", "shm_mutex")
  /\ Holds("motion", "shm_mutex")
  /\ lock_at["motion"].block = heartbeat_locks

====
